---- MODULE Spec2Model ----
(***************************************************************************)
(* Model of github-watch (main.go): the search run (runSearches), the      *)
(* commit-date enrichment pool (enrichWithCommitDates), deduplication and  *)
(* the rate governor (throttleFrom).                                       *)
(*                                                                         *)
(* Time is an abstract line of instants 0..MaxDate.  Instant 0 is Go's     *)
(* zero time.Time (what a failed time.Parse returns, and what IsZero       *)
(* tests); Since is the window start.                                      *)
(***************************************************************************)
EXTENDS Integers, Sequences, FiniteSets, TLC

\* ------------------------------------------------------------------ bounds
MaxPagesBound == 2
MaxItems == 1
MaxHits == 2
MaxDate == 3
MaxJobs == 3
MaxList == 3
MaxQuery == 3
MaxChunks == 4
MaxEmits == 5
\* the length the event list of a run is cut back to: 1000 in emitFunc, scaled
RingCap == 3

\* ------------------------------------------------------- program constants
maxConcurrentDetails == 2
maxPagesDefault == 2
defaultDaysBack == 7
perPageDefault == 50
Since == 2

\* ------------------------------------------------------------------ helpers
SeqsUpTo(S, n) == UNION {[1..k -> S] : k \in 1..n}

NoResp == [kind |-> "none", status |-> 0, body |-> "ok", items |-> <<>>]

\* ---------------------------------------------------------- upstream data
\* What the code-search API can return as one item (codeItem + codeRepo).
CodeItems ==
  { [Repository |-> "o/r1", RepoURL |-> "h/o/r1", FilePath |-> "a.go", FileURL |-> "u1", Language |-> "Go"],
    [Repository |-> "o/r1", RepoURL |-> "h/o/r1", FilePath |-> "a.go", FileURL |-> "u2", Language |-> "Go"] }

\* A timestamp as sent by the API: text that denotes the instant `at`, written
\* in RFC3339 or in some other layout.
TimeTexts ==
  { [fmt |-> "rfc3339", at |-> Since - 1],
    [fmt |-> "rfc3339", at |-> Since],
    [fmt |-> "rfc3339", at |-> MaxDate],
    [fmt |-> "other", at |-> MaxDate] }

\* What the repository-search API can return as one item (repoItem).
RepoItems ==
  { [FullName |-> "o/x", PushedAt |-> [fmt |-> "rfc3339", at |-> Since - 1]],
    [FullName |-> "o/x", PushedAt |-> [fmt |-> "rfc3339", at |-> MaxDate]],
    [FullName |-> "o/y", PushedAt |-> [fmt |-> "rfc3339", at |-> Since]],
    [FullName |-> "o/y", PushedAt |-> [fmt |-> "other", at |-> MaxDate]] }

\* time.Parse(time.RFC3339, s): the instant, or the zero time on error.
ParseRFC3339(s) == IF s.fmt = "rfc3339" THEN s.at ELSE 0

\* time.Time.IsZero
IsZero(t) == t = 0

\* a.Before(b) / a.After(b)
Before(a, b) == a < b

After(a, b) == a > b

\* strings.ToLower on the search types in use.
ToLower(s) ==
  CASE s = "Code" -> "code"
    [] s = "REPO" -> "repo"
    [] s = "Search" -> "search"
    [] OTHER -> s

\* ------------------------------------------------------ query specifications
QS1 ==
  << [Name |-> "G1", Enabled |-> TRUE,
      Searches |-> << [Name |-> "c1", Type |-> "code", Enabled |-> TRUE],
                      [Name |-> "r1", Type |-> "repo", Enabled |-> TRUE] >>] >>

QS2 ==
  << [Name |-> "G1", Enabled |-> TRUE,
      Searches |-> << [Name |-> "d1", Type |-> "code", Enabled |-> FALSE],
                      [Name |-> "c1", Type |-> "Code", Enabled |-> TRUE],
                      [Name |-> "g1", Type |-> "gist", Enabled |-> TRUE] >>],
     [Name |-> "G2", Enabled |-> FALSE,
      Searches |-> << [Name |-> "c2", Type |-> "code", Enabled |-> TRUE] >>],
     [Name |-> "G3", Enabled |-> TRUE,
      Searches |-> << [Name |-> "c3", Type |-> "code", Enabled |-> TRUE] >>] >>

QuerySpecs == {QS1, QS2}

Settings ==
  [MaxPages : 1..MaxPagesBound, UseCommitCheck : BOOLEAN, IncludeRepoSearch : BOOLEAN]

\* ------------------------------------------------------------------- state
VARIABLES
  cfg,        \* AppSettings handed to runSearches
  spec,       \* *QueriesSpec handed to runSearches (spec.Groups)
  ctxDone,    \* the governing context is cancelled / past its deadline
  pc,         \* position of runSearches
  gi, qi,     \* indexes of the range loops over Groups and Searches
  page,       \* page
  found,      \* foundThisQuery
  resp,       \* resp of the current page request
  resp2,      \* resp2 of the strict retry
  after,      \* what follows the running throttleFrom: "continue" or "break"
  thrOn,      \* the response the running throttleFrom was called on
  codeHits,   \* codeHits
  repoHits,   \* repoHits
  notes,      \* notes
  ret,        \* what runSearches returned: [findings, err], or NoRet
  cancelledIn, \* how the run stood when the context was cancelled (history)
  lastResp,   \* the response received last, until a throttleFrom has run after it (history)
  strictPage, \* the page of the search under way that has had its strict retry, 0 if none (history)
  lastEv,     \* the DebugEvent passed to emit last
  unreported, \* client.get has come back and emit has not been called since (history)
  \* enrichWithCommitDates
  hits,          \* the hits argument
  next,          \* the feeder goroutine: index of the next job to send
  jobsClosed,    \* close(jobs) has run
  resultsClosed, \* close(results) has run
  wk,            \* per worker: where it is, the job it holds, its result
  wg,            \* the WaitGroup counter
  out,           \* the out array
  looked,        \* per job, what its lookup produced (history)
  enrichRet,     \* the array enrichWithCommitDates returned
  \* throttleFrom
  thrIn,         \* the response and the clock throttleFrom is called with
  slept,         \* what it did: the rule applied and the time.Sleep argument
  sleeps,        \* the time.Sleep calls it made, in order
  \* dedupeCode / dedupeRepo
  ddIn,          \* which of the two is called, and the list it is called on
  ddOut,         \* the list it returned
  \* urlQueryEscape
  escIn,         \* the query it is called on, a sequence of characters
  escOut,        \* the text it returned
  \* sanitizeCodeQuery
  sanIn,         \* the raw query it is called on, a sequence of characters
  sanOut,        \* the text it returned
  \* emitFunc
  runs,          \* s.runs: per run identifier, the list of its events
  runsMu,        \* s.runsMu: the emit call that holds it, 0 if none
  em,            \* per emit call under way: where it is, its runID, ev, and what it read
  nextEv,        \* the number of emit calls made so far, plus one
  emitDone,      \* per run identifier, the events whose emit has completed, in that order (history)
  \* the Server and its handlers
  srv,           \* the Server: cfg, saved, markdown, raw, status, inProgress, lastRunID
  envTokens,     \* GITHUB_TOKEN and OPENAI_API_KEY are both set
  sv,            \* the save-settings request served last: its decoded body, and the status answered
  hr,            \* per handleRunReport invocation served side by side: where it is
  rr             \* handleRunReport: where it is, and the status it answered with

runVars ==
  <<cfg, spec, ctxDone, pc, gi, qi, page, found, resp, resp2, after, thrOn,
    codeHits, repoHits, notes, ret, cancelledIn, lastResp, strictPage,
    lastEv, unreported>>

poolVars == <<hits, next, jobsClosed, resultsClosed, wk, wg, out, looked, enrichRet>>

thrVars == <<thrIn, slept, sleeps>>

ddVars == <<ddIn, ddOut>>

escVars == <<escIn, escOut>>

sanVars == <<sanIn, sanOut>>

emitVars == <<runs, runsMu, em, nextEv, emitDone>>

\* the functions modelled on their own, throttleFrom apart
fnVars == <<ddVars, escVars, sanVars, emitVars>>

srvVars == <<srv, envTokens, sv, hr, rr>>

restVars == <<fnVars, srvVars>>

\* everything outside the locals of runSearches
notRun == <<poolVars, thrVars, restVars>>

vars == <<runVars, poolVars, thrVars, restVars>>

\* emit(DebugEvent{Phase: "start", ...}) of handleRunReport, before runSearches
StartEv == [Phase |-> "start", Kind |-> "", Page |-> 0, URL |-> ""]

\* DebugEvent{Phase: "search-<kind>-<phase>", Page: p, URL: url}; url is
\* "lenient" for url, "strict" for strictURL, "" for none
Ev(phase, kind, p, url) == [Phase |-> phase, Kind |-> kind, Page |-> p, URL |-> url]

\* emit(ev)
Emit(ev) ==
  /\ lastEv' = ev
  /\ unreported' = FALSE

\* client.get has come back, and the step calls emit nowhere
NoEmit ==
  /\ lastEv' = lastEv
  /\ unreported' = TRUE

NoRet == [findings |-> "none", err |-> "none"]

\* Findings{} : the zero value returned beside an error.
EmptyFindings == [CodeHits |-> <<>>, RepoHits |-> <<>>, Notes |-> <<>>]

Groups == spec

CurGroup == Groups[gi]

CurSearch == CurGroup.Searches[qi]

Kind == ToLower(CurSearch.Type)

Total == Len(codeHits) + Len(repoHits)

Workers == 1..maxConcurrentDetails

IdleWorker == [pc |-> "idle", i |-> 0, t |-> 0]

\* no enrichWithCommitDates call is running
PoolIdle ==
  /\ hits = <<>>
  /\ next = 0
  /\ jobsClosed = FALSE
  /\ resultsClosed = FALSE
  /\ wk = [k \in Workers |-> IdleWorker]
  /\ wg = 0
  /\ out = <<>>
  /\ looked = <<>>
  /\ enrichRet = <<>>

NoThr == [rule |-> "none", ms |-> 0]

ThrIdle ==
  /\ thrIn = NoThr
  /\ slept = NoThr
  /\ sleeps = <<>>

NoCall == [kind |-> "none", list |-> <<>>]

DdIdle ==
  /\ ddIn = NoCall
  /\ ddOut = <<>>

EscIdle ==
  /\ escIn = <<>>
  /\ escOut = <<>>

SanIdle ==
  /\ sanIn = <<>>
  /\ sanOut = <<>>

RunIDs == {"r1", "r2"}

\* the goroutines that call emit
Emitters == 1..2

NoEvent == [id |-> 0, RunID |-> "", Phase |-> 0]

\* s.runs = make(map[string][]DebugEvent): a run identifier that is not a key
\* reads as the empty list
NoRuns == [r \in RunIDs |-> <<>>]

\* no emit call is under way, none has been made
EmitIdle ==
  /\ runs = NoRuns
  /\ runsMu = 0
  /\ em = [e \in Emitters |-> [pc |-> "idle", run |-> "r1", ev |-> NoEvent, local |-> <<>>]]
  /\ nextEv = 1
  /\ emitDone = NoRuns

\* none of the functions modelled on their own is called
FnIdle ==
  /\ DdIdle
  /\ EscIdle
  /\ SanIdle
  /\ EmitIdle

\* s := &Server{cfg: AppSettings{MaxPages: maxPagesDefault, UseCommitCheck: true,
\* IncludeRepoSearch: true, ...}}: every other field has its zero value
defaultModel == "gpt-5"

DefaultCfg ==
  [DaysBack |-> defaultDaysBack, OpenAIModel |-> defaultModel, MaxPages |-> maxPagesDefault,
   PerPage |-> perPageDefault, UseCommitCheck |-> TRUE, IncludeRepoSearch |-> TRUE]

NewServer ==
  [cfg |-> DefaultCfg, saved |-> FALSE, markdown |-> "", raw |-> EmptyFindings,
   status |-> "", inProgress |-> FALSE, lastRunID |-> ""]

NoRequest == [pc |-> "idle", code |-> 0]

NoSave == [body |-> "none", code |-> 0]

\* the run-report requests that net/http serves at the same time, each on
\* its own goroutine
Handlers == 1..2

NoHandlers == [h \in Handlers |-> "idle"]

\* the Server as main leaves it, no request under way
SrvIdle ==
  /\ srv = NewServer
  /\ envTokens = TRUE
  /\ sv = NoSave
  /\ hr = NoHandlers
  /\ rr = NoRequest

\* what an earlier report left in the Server
OldFindings ==
  [CodeHits |-> <<>>,
   RepoHits |-> <<[Group |-> "G1", QueryName |-> "r1", FullName |-> "o/x", PushedAt |-> MaxDate]>>,
   Notes |-> <<>>]

\* handleRunReport has just called runSearches(ctx, s.cfg, spec, emit), on a
\* Server that has drafted a report before
SrvInRun ==
  /\ srv = [cfg |-> cfg, saved |-> TRUE, markdown |-> "old", raw |-> OldFindings,
            status |-> "Running GitHub searches...", inProgress |-> TRUE,
            lastRunID |-> "new"]
  /\ envTokens = TRUE
  /\ sv = NoSave
  /\ hr = NoHandlers
  /\ rr = [pc |-> "search", code |-> 0]

\* no function is called on its own, no request is under way
RestIdle ==
  /\ FnIdle
  /\ SrvIdle

\* ------------------------------------------------------------------- Init
Init ==
  /\ cfg \in Settings
  /\ spec \in QuerySpecs
  /\ ctxDone = FALSE
  /\ pc = "loop"
  /\ gi = 1
  /\ qi = 1
  /\ page = 0
  /\ found = 0
  /\ resp = NoResp
  /\ resp2 = NoResp
  /\ after = "none"
  /\ thrOn = "none"
  /\ codeHits = <<>>
  /\ repoHits = <<>>
  /\ notes = <<>>
  /\ ret = NoRet
  /\ cancelledIn = "none"
  /\ lastResp = "none"
  /\ strictPage = 0
  /\ lastEv = StartEv
  /\ unreported = FALSE
  /\ PoolIdle
  /\ ThrIdle
  /\ FnIdle
  /\ SrvInRun

\* ------------------------------------------------- the governing context
\* search q of group g gets to its page loop
Runs(g, q) ==
  /\ Groups[g].Enabled
  /\ Groups[g].Searches[q].Enabled
  /\ \/ ToLower(Groups[g].Searches[q].Type) = "code"
     \/ ToLower(Groups[g].Searches[q].Type) = "repo" /\ cfg.IncludeRepoSearch

\* a search at or after position (gi, q) will still run
MoreSearches(q) ==
  \E g \in gi..Len(Groups) :
    \E k \in 1..Len(Groups[g].Searches) : (g > gi \/ k >= q) /\ Runs(g, k)

\* Where the run stands with respect to the select on ctx.Done():
\*   "ahead": a page request is being made, or the select before a page
\*            request of this run is still to come;
\*   "last":  the strict retry or a throttleFrom pause is under way and no
\*            select follows it;
\*   "later": the last search is over.
Standing ==
  CASE pc \in {"check", "request"} -> "ahead"
    [] pc = "retry" -> IF MoreSearches(qi + 1) THEN "ahead" ELSE "last"
    [] pc = "throttle" ->
         IF (after = "continue" /\ page <= cfg.MaxPages) \/ MoreSearches(qi + 1)
           THEN "ahead" ELSE "last"
    [] pc = "endsearch" -> IF MoreSearches(qi + 1) THEN "ahead" ELSE "later"
    [] pc = "loop" -> IF gi <= Len(Groups) /\ MoreSearches(qi) THEN "ahead" ELSE "later"
    [] OTHER -> "later"

\* The deadline passes or the client goes away, at any moment of the run.
Cancel ==
  /\ pc # "done"
  /\ ~ctxDone
  /\ ctxDone' = TRUE
  /\ cancelledIn' = Standing
  /\ UNCHANGED <<cfg, spec, lastResp, strictPage, lastEv, unreported, pc, gi, qi, page, found, resp, resp2, after, thrOn,
                 codeHits, repoHits, notes, ret>>
  /\ UNCHANGED notRun

\* The locals of runSearches are gone once it has returned. codeHits and
\* repoHits are left standing, to show what the call held when it returned:
\* the lists it dropped on an error, the sorted lists it handed to dedupeCode
\* and dedupeRepo otherwise.
LocalsGone ==
  /\ gi' = 0
  /\ qi' = 0
  /\ page' = 0
  /\ found' = 0
  /\ resp' = NoResp
  /\ resp2' = NoResp
  /\ after' = "none"
  /\ thrOn' = "none"
  /\ notes' = <<>>
  /\ lastResp' = "none"
  /\ strictPage' = 0

\* return Findings{}, err
ReturnErr(e) ==
  /\ pc' = "done"
  /\ ret' = [findings |-> EmptyFindings, err |-> e]
  /\ LocalsGone
  /\ UNCHANGED <<cfg, spec, ctxDone, cancelledIn, codeHits, repoHits>>
  /\ UNCHANGED notRun

\* ------------------------------------------ runSearches: the range loops
\* for _, g := range spec.Groups { if !g.Enabled { continue }
SkipGroup ==
  /\ pc = "loop"
  /\ gi <= Len(Groups)
  /\ ~CurGroup.Enabled
  /\ gi' = gi + 1
  /\ qi' = 1
  /\ UNCHANGED <<cfg, spec, ctxDone, cancelledIn, lastResp, strictPage, lastEv, unreported, pc, page, found, resp, resp2, after, thrOn,
                 codeHits, repoHits, notes, ret>>
  /\ UNCHANGED notRun

\* the inner range loop is exhausted
EndGroup ==
  /\ pc = "loop"
  /\ gi <= Len(Groups)
  /\ CurGroup.Enabled
  /\ qi > Len(CurGroup.Searches)
  /\ gi' = gi + 1
  /\ qi' = 1
  /\ UNCHANGED <<cfg, spec, ctxDone, cancelledIn, lastResp, strictPage, lastEv, unreported, pc, page, found, resp, resp2, after, thrOn,
                 codeHits, repoHits, notes, ret>>
  /\ UNCHANGED notRun

InSearch ==
  /\ pc = "loop"
  /\ gi <= Len(Groups)
  /\ CurGroup.Enabled
  /\ qi <= Len(CurGroup.Searches)

\* (fault) the Enabled flag of a search is not looked at: a disabled code
\* search gets its page loop
SkipSearchRuns ==
  /\ InSearch
  /\ ~CurSearch.Enabled
  /\ page' = 1
  /\ found' = 0
  /\ pc' = IF 1 <= cfg.MaxPages THEN "check" ELSE "endsearch"
  /\ UNCHANGED <<cfg, spec, ctxDone, cancelledIn, lastResp, strictPage, lastEv, unreported, gi, qi, resp, resp2, after, thrOn,
                 codeHits, repoHits, notes, ret>>
  /\ UNCHANGED notRun

\* if !q.Enabled { continue }
SkipSearch ==
  /\ InSearch
  /\ ~CurSearch.Enabled
  /\ qi' = qi + 1
  /\ UNCHANGED <<cfg, spec, ctxDone, cancelledIn, lastResp, strictPage, lastEv, unreported, pc, gi, page, found, resp, resp2, after, thrOn,
                 codeHits, repoHits, notes, ret>>
  /\ UNCHANGED notRun

\* case "code": page := 1; foundThisQuery := 0
StartCode ==
  /\ InSearch
  /\ CurSearch.Enabled
  /\ Kind = "code"
  /\ page' = 1
  /\ found' = 0
  /\ pc' = IF 1 <= cfg.MaxPages THEN "check" ELSE "endsearch"
  /\ UNCHANGED <<cfg, spec, ctxDone, cancelledIn, lastResp, strictPage, lastEv, unreported, gi, qi, resp, resp2, after, thrOn,
                 codeHits, repoHits, notes, ret>>
  /\ UNCHANGED notRun

\* case "repo": if !cfg.IncludeRepoSearch { continue }
SkipRepo ==
  /\ InSearch
  /\ CurSearch.Enabled
  /\ Kind = "repo"
  /\ ~cfg.IncludeRepoSearch
  /\ qi' = qi + 1
  /\ UNCHANGED <<cfg, spec, ctxDone, cancelledIn, lastResp, strictPage, lastEv, unreported, pc, gi, page, found, resp, resp2, after, thrOn,
                 codeHits, repoHits, notes, ret>>
  /\ UNCHANGED notRun

\* case "repo": page := 1; foundThisQuery := 0
StartRepo ==
  /\ InSearch
  /\ CurSearch.Enabled
  /\ Kind = "repo"
  /\ cfg.IncludeRepoSearch
  /\ page' = 1
  /\ found' = 0
  /\ pc' = IF 1 <= cfg.MaxPages THEN "check" ELSE "endsearch"
  /\ UNCHANGED <<cfg, spec, ctxDone, cancelledIn, lastResp, strictPage, lastEv, unreported, gi, qi, resp, resp2, after, thrOn,
                 codeHits, repoHits, notes, ret>>
  /\ UNCHANGED notRun

\* default: notes = append(notes, "Unknown type ...")
UnknownType ==
  /\ InSearch
  /\ CurSearch.Enabled
  /\ Kind \notin {"code", "repo"}
  /\ notes' = Append(notes, [kind |-> "unknown", g |-> gi, q |-> qi, status |-> 0])
  /\ qi' = qi + 1
  /\ Emit(Ev("unknown", "", 0, ""))
  /\ UNCHANGED <<cfg, spec, ctxDone, cancelledIn, lastResp, strictPage, pc, gi, page, found, resp, resp2, after, thrOn,
                 codeHits, repoHits, ret>>
  /\ UNCHANGED notRun

\* the outer range loop is exhausted
EndLoop ==
  /\ pc = "loop"
  /\ gi > Len(Groups)
  /\ pc' = "commitcheck"
  /\ UNCHANGED <<cfg, spec, ctxDone, cancelledIn, lastResp, strictPage, lastEv, unreported, gi, qi, page, found, resp, resp2, after, thrOn,
                 codeHits, repoHits, notes, ret>>
  /\ UNCHANGED notRun

\* ---------------------------------------------- runSearches: the page loop
\* A request under way when the context is cancelled is aborted: client.get
\* returns the context's error. (A response that beat the cancellation is the
\* run in which Cancel comes right after the response.)
Http(st, b, its) == [kind |-> "http", status |-> st, body |-> b, items |-> its]

TransportErr == [kind |-> "err", status |-> 0, body |-> "ok", items |-> <<>>]

\* statuses other than 200 that the API answers with
FailStatuses == {403, 422}

\* CodeHit{Group: g.Name, QueryName: q.Name, Repository: ..., ...}
MkCodeHit(it) ==
  [Group |-> CurGroup.Name, QueryName |-> CurSearch.Name,
   Repository |-> it.Repository, RepoURL |-> it.RepoURL,
   FilePath |-> it.FilePath, FileURL |-> it.FileURL,
   Language |-> it.Language, CommitDate |-> 0]

\* RepoHit{Group: g.Name, QueryName: q.Name, FullName: ..., PushedAt: pushed}
MkRepoHit(it) ==
  [Group |-> CurGroup.Name, QueryName |-> CurSearch.Name,
   FullName |-> it.FullName, PushedAt |-> ParseRFC3339(it.PushedAt)]

\* for _, it := range cr.Items { codeHits = append(codeHits, CodeHit{...}) }
CodeHitsOf(its) == [i \in 1..Len(its) |-> MkCodeHit(its[i])]

\* (fault) only the unparseable timestamps are left out
RepoKeepParsed(it) == ~IsZero(ParseRFC3339(it.PushedAt))

\* if pushed.Before(since) { continue }
RepoKeep(it) == ~Before(ParseRFC3339(it.PushedAt), Since)

\* for _, it := range rr.Items { ...; repoHits = append(repoHits, RepoHit{...}) }
RepoHitsOf(its) ==
  LET kept == SelectSeq(its, RepoKeep)
  IN  [i \in 1..Len(kept) |-> MkRepoHit(kept[i])]

StatusNote(st) == [kind |-> "status", g |-> gi, q |-> qi, status |-> st]

RetryNote(st) == [kind |-> "retry", g |-> gi, q |-> qi, status |-> st]

EmptyNote == [kind |-> IF Kind = "code" THEN "nocode" ELSE "norepo", g |-> gi, q |-> qi, status |-> 0]

\* (fault) the select is missing: the request is made under a dead context
CheckSkipped ==
  /\ pc = "check"
  /\ ctxDone
  /\ pc' = "request"
  /\ Emit(Ev("search", Kind, page, "lenient"))
  /\ UNCHANGED <<cfg, spec, ctxDone, cancelledIn, lastResp, strictPage, gi, qi, page, found, resp, resp2, after, thrOn,
                 codeHits, repoHits, notes, ret>>
  /\ UNCHANGED notRun

\* select { case <-ctx.Done(): return Findings{}, ctx.Err()
CheckCancelled ==
  /\ pc = "check"
  /\ ctxDone
  /\ ReturnErr("canceled")
  /\ UNCHANGED <<lastEv, unreported>>

\* default: } ... resp, err := client.get(ctx, url)
IssueRequest ==
  /\ pc = "check"
  /\ ~ctxDone
  /\ pc' = "request"
  /\ Emit(Ev("search", Kind, page, "lenient"))
  /\ UNCHANGED <<cfg, spec, ctxDone, cancelledIn, lastResp, strictPage, gi, qi, page, found, resp, resp2, after, thrOn,
                 codeHits, repoHits, notes, ret>>
  /\ UNCHANGED notRun

\* (fault) the error of client.get is absorbed like a bad status
RespTransportErrAbsorbed ==
  /\ pc = "request"
  /\ resp' = TransportErr
  /\ notes' = Append(notes, StatusNote(0))
  /\ pc' = "throttle"
  /\ after' = "break"
  /\ thrOn' = "resp"
  /\ Emit(Ev("error", Kind, page, "lenient"))
  /\ UNCHANGED <<cfg, spec, ctxDone, cancelledIn, lastResp, strictPage, gi, qi, page, found, resp2,
                 codeHits, repoHits, ret>>
  /\ UNCHANGED notRun

\* (fault) the error comes back beside what the run had collected
RespTransportErrPartial ==
  /\ pc = "request"
  /\ pc' = "done"
  /\ ret' = [findings |-> [CodeHits |-> codeHits, RepoHits |-> repoHits, Notes |-> notes],
             err |-> IF ctxDone THEN "canceled" ELSE "transport"]
  /\ LocalsGone
  /\ UNCHANGED <<cfg, spec, ctxDone, cancelledIn, codeHits, repoHits>>
  /\ UNCHANGED notRun
  /\ Emit(Ev("error", Kind, page, "lenient"))

\* if err != nil { return Findings{}, err }: the network failed, or the
\* context was cancelled under the request (err is then the context's error)
RespTransportErr ==
  /\ pc = "request"
  /\ ReturnErr(IF ctxDone THEN "canceled" ELSE "transport")
  /\ Emit(Ev("error", Kind, page, "lenient"))

\* (fault) a status other than 200 ends the run with an error
RespFailAborts ==
  /\ pc = "request"
  /\ ~ctxDone
  /\ ReturnErr("status")
  /\ Emit(Ev("non200", Kind, page, "lenient"))

\* resp.StatusCode != 200, no retry: note, throttleFrom(resp), break
RespFail ==
  /\ pc = "request"
  /\ ~ctxDone
  /\ \E st \in FailStatuses :
       /\ ~(Kind = "code" /\ st = 422)
       /\ resp' = Http(st, "ok", <<>>)
       /\ notes' = Append(notes, StatusNote(st))
  /\ pc' = "throttle"
  /\ after' = "break"
  /\ thrOn' = "resp"
  /\ lastResp' = "resp"
  /\ strictPage' = strictPage
  /\ Emit(Ev("non200", Kind, page, "lenient"))
  /\ UNCHANGED <<cfg, spec, ctxDone, cancelledIn, gi, qi, page, found, resp2,
                 codeHits, repoHits, ret>>
  /\ UNCHANGED notRun

\* code search, resp.StatusCode == 422: resp2, err2 := client.get(ctx, strictURL)
Resp422 ==
  /\ pc = "request"
  /\ ~ctxDone
  /\ Kind = "code"
  /\ resp' = Http(422, "ok", <<>>)
  /\ pc' = "retry"
  /\ lastResp' = "resp"
  /\ strictPage' = page
  /\ Emit(Ev("retry", Kind, page, "strict"))
  /\ UNCHANGED <<cfg, spec, ctxDone, cancelledIn, gi, qi, page, found, resp2, after, thrOn,
                 codeHits, repoHits, notes, ret>>
  /\ UNCHANGED notRun

\* json.Unmarshal(body, &cr) fails: return Findings{}, err
RespBadBody ==
  /\ pc = "request"
  /\ ~ctxDone
  /\ ReturnErr("parse")
  /\ NoEmit

\* (fault) a page with no items is taken as one more page: page++, throttleFrom(resp)
RespZeroNextPage ==
  /\ pc = "request"
  /\ ~ctxDone
  /\ resp' = Http(200, "ok", <<>>)
  /\ page' = page + 1
  /\ pc' = "throttle"
  /\ after' = "continue"
  /\ thrOn' = "resp"
  /\ lastResp' = "resp"
  /\ strictPage' = strictPage
  /\ Emit(Ev("ok", Kind, page, "lenient"))
  /\ UNCHANGED <<cfg, spec, ctxDone, cancelledIn, gi, qi, found, resp2,
                 codeHits, repoHits, notes, ret>>
  /\ UNCHANGED notRun

\* len(cr.Items) == 0: break
RespZero ==
  /\ pc = "request"
  /\ ~ctxDone
  /\ resp' = Http(200, "ok", <<>>)
  /\ pc' = "endsearch"
  /\ lastResp' = "resp"
  /\ strictPage' = strictPage
  /\ Emit(Ev("ok", Kind, page, "lenient"))
  /\ UNCHANGED <<cfg, spec, ctxDone, cancelledIn, gi, qi, page, found, resp2, after, thrOn,
                 codeHits, repoHits, notes, ret>>
  /\ UNCHANGED notRun

\* code search, items: append the hits, page++, throttleFrom(resp)
RespCodeItems ==
  /\ pc = "request"
  /\ ~ctxDone
  /\ Kind = "code"
  /\ \E its \in SeqsUpTo(CodeItems, MaxItems) :
       /\ Total + Len(its) <= MaxHits
       /\ resp' = Http(200, "ok", its)
       /\ codeHits' = codeHits \o CodeHitsOf(its)
       /\ found' = found + Len(its)
  /\ page' = page + 1
  /\ pc' = "throttle"
  /\ after' = "continue"
  /\ thrOn' = "resp"
  /\ lastResp' = "resp"
  /\ strictPage' = strictPage
  /\ Emit(Ev("ok", Kind, page, "lenient"))
  /\ UNCHANGED <<cfg, spec, ctxDone, cancelledIn, gi, qi, resp2, repoHits, notes, ret>>
  /\ UNCHANGED notRun

\* repo search, items: append those pushed inside the window, page++, throttleFrom(resp)
RespRepoItems ==
  /\ pc = "request"
  /\ ~ctxDone
  /\ Kind = "repo"
  /\ \E its \in SeqsUpTo(RepoItems, MaxItems) :
       /\ Total + Len(its) <= MaxHits
       /\ resp' = Http(200, "ok", its)
       /\ repoHits' = repoHits \o RepoHitsOf(its)
       /\ found' = found + Len(RepoHitsOf(its))
  /\ page' = page + 1
  /\ pc' = "throttle"
  /\ after' = "continue"
  /\ thrOn' = "resp"
  /\ lastResp' = "resp"
  /\ strictPage' = strictPage
  /\ Emit(Ev("ok", Kind, page, "lenient"))
  /\ UNCHANGED <<cfg, spec, ctxDone, cancelledIn, gi, qi, resp2, codeHits, notes, ret>>
  /\ UNCHANGED notRun

\* ------------------------------------------------ the strict retry (422)
\* err2 != nil: fall through to the note of resp, throttleFrom(resp), break
RetryTransportErr ==
  /\ pc = "retry"
  /\ resp2' = TransportErr
  /\ notes' = Append(notes, StatusNote(resp.status))
  /\ pc' = "throttle"
  /\ after' = "break"
  /\ thrOn' = "resp"
  /\ NoEmit
  /\ UNCHANGED <<cfg, spec, ctxDone, cancelledIn, lastResp, strictPage, gi, qi, page, found, resp,
                 codeHits, repoHits, ret>>
  /\ UNCHANGED notRun

\* (fault) the failed retry leaves only the note of the first response
RetryFailOneNote ==
  /\ pc = "retry"
  /\ ~ctxDone
  /\ \E st \in FailStatuses :
       /\ resp2' = Http(st, "ok", <<>>)
       /\ notes' = Append(notes, StatusNote(resp.status))
  /\ pc' = "throttle"
  /\ after' = "break"
  /\ thrOn' = "resp"
  /\ lastResp' = "resp2"
  /\ strictPage' = strictPage
  /\ Emit(Ev("retry-failed", Kind, page, "strict"))
  /\ UNCHANGED <<cfg, spec, ctxDone, cancelledIn, gi, qi, page, found, resp,
                 codeHits, repoHits, ret>>
  /\ UNCHANGED notRun

\* resp2.StatusCode != 200: both notes, throttleFrom(resp), break
RetryFail ==
  /\ pc = "retry"
  /\ ~ctxDone
  /\ \E st \in FailStatuses :
       /\ resp2' = Http(st, "ok", <<>>)
       /\ notes' = notes \o <<RetryNote(st), StatusNote(resp.status)>>
  /\ pc' = "throttle"
  /\ after' = "break"
  /\ thrOn' = "resp"
  /\ lastResp' = "resp2"
  /\ strictPage' = strictPage
  /\ Emit(Ev("retry-failed", Kind, page, "strict"))
  /\ UNCHANGED <<cfg, spec, ctxDone, cancelledIn, gi, qi, page, found, resp,
                 codeHits, repoHits, ret>>
  /\ UNCHANGED notRun

\* (fault) a body of the retry that does not parse counts as no items
RetryBadBodyAsEmpty ==
  /\ pc = "retry"
  /\ ~ctxDone
  /\ resp2' = Http(200, "bad", <<>>)
  /\ pc' = "endsearch"
  /\ lastResp' = "resp2"
  /\ strictPage' = strictPage
  /\ NoEmit
  /\ UNCHANGED <<cfg, spec, ctxDone, cancelledIn, gi, qi, page, found, resp, after, thrOn,
                 codeHits, repoHits, notes, ret>>
  /\ UNCHANGED notRun

\* json.Unmarshal(body2, &cr2) fails: return Findings{}, err
RetryBadBody ==
  /\ pc = "retry"
  /\ ~ctxDone
  /\ ReturnErr("parse")
  /\ NoEmit

\* len(cr2.Items) == 0: break
RetryZero ==
  /\ pc = "retry"
  /\ ~ctxDone
  /\ resp2' = Http(200, "ok", <<>>)
  /\ pc' = "endsearch"
  /\ lastResp' = "resp2"
  /\ strictPage' = strictPage
  /\ Emit(Ev("ok", Kind, page, "strict"))
  /\ UNCHANGED <<cfg, spec, ctxDone, cancelledIn, gi, qi, page, found, resp, after, thrOn,
                 codeHits, repoHits, notes, ret>>
  /\ UNCHANGED notRun

\* (fault) the retry's hits are appended but page++ is forgotten
RetryItemsSamePage ==
  /\ pc = "retry"
  /\ ~ctxDone
  /\ \E its \in SeqsUpTo(CodeItems, MaxItems) :
       /\ Total + Len(its) <= MaxHits
       /\ resp2' = Http(200, "ok", its)
       /\ codeHits' = codeHits \o CodeHitsOf(its)
       /\ found' = found + Len(its)
  /\ pc' = "throttle"
  /\ after' = "continue"
  /\ thrOn' = "resp2"
  /\ lastResp' = "resp2"
  /\ strictPage' = strictPage
  /\ Emit(Ev("ok", Kind, page, "strict"))
  /\ UNCHANGED <<cfg, spec, ctxDone, cancelledIn, gi, qi, page, resp, repoHits, notes, ret>>
  /\ UNCHANGED notRun

\* items: append the hits, page++, throttleFrom(resp2), continue
RetryItems ==
  /\ pc = "retry"
  /\ ~ctxDone
  /\ \E its \in SeqsUpTo(CodeItems, MaxItems) :
       /\ Total + Len(its) <= MaxHits
       /\ resp2' = Http(200, "ok", its)
       /\ codeHits' = codeHits \o CodeHitsOf(its)
       /\ found' = found + Len(its)
  /\ page' = page + 1
  /\ pc' = "throttle"
  /\ after' = "continue"
  /\ thrOn' = "resp2"
  /\ lastResp' = "resp2"
  /\ strictPage' = strictPage
  /\ Emit(Ev("ok", Kind, page, "strict"))
  /\ UNCHANGED <<cfg, spec, ctxDone, cancelledIn, gi, qi, resp, repoHits, notes, ret>>
  /\ UNCHANGED notRun

\* throttleFrom returns: back to `for page <= maxPages`, or out of it
ThrottleDone ==
  /\ pc = "throttle"
  /\ pc' = IF after = "continue" /\ page <= cfg.MaxPages THEN "check" ELSE "endsearch"
  /\ after' = "none"
  /\ thrOn' = "none"
  /\ resp' = NoResp
  /\ resp2' = NoResp
  /\ lastResp' = "none"
  /\ strictPage' = strictPage
  /\ UNCHANGED <<lastEv, unreported>>
  /\ UNCHANGED <<cfg, spec, ctxDone, cancelledIn, gi, qi, page, found,
                 codeHits, repoHits, notes, ret>>
  /\ UNCHANGED notRun

\* (fault) the note is recorded when no page got past the first request
EndSearchFirstPage ==
  /\ pc = "endsearch"
  /\ notes' = IF page = 1 THEN Append(notes, EmptyNote) ELSE notes
  /\ qi' = qi + 1
  /\ pc' = "loop"
  /\ page' = 0
  /\ found' = 0
  /\ resp' = NoResp
  /\ resp2' = NoResp
  /\ strictPage' = 0
  /\ IF page = 1 THEN Emit(Ev("empty", Kind, 0, "")) ELSE UNCHANGED <<lastEv, unreported>>
  /\ UNCHANGED <<cfg, spec, ctxDone, cancelledIn, lastResp, gi, after, thrOn, codeHits, repoHits, ret>>
  /\ UNCHANGED notRun

\* if foundThisQuery == 0 { notes = append(notes, "No ... hits ...") }
EndSearch ==
  /\ pc = "endsearch"
  /\ notes' = IF found = 0 THEN Append(notes, EmptyNote) ELSE notes
  /\ qi' = qi + 1
  /\ pc' = "loop"
  /\ page' = 0
  /\ found' = 0
  /\ resp' = NoResp
  /\ resp2' = NoResp
  /\ strictPage' = 0
  /\ IF found = 0 THEN Emit(Ev("empty", Kind, 0, "")) ELSE UNCHANGED <<lastEv, unreported>>
  /\ UNCHANGED <<cfg, spec, ctxDone, cancelledIn, lastResp, gi, after, thrOn, codeHits, repoHits, ret>>
  /\ UNCHANGED notRun

\* ------------------------------------------------- enrichWithCommitDates
\* the hits the pool is tried on
PoolHits ==
  { [Group |-> "G1", QueryName |-> "c1",
     Repository |-> it.Repository, RepoURL |-> it.RepoURL,
     FilePath |-> it.FilePath, FileURL |-> it.FileURL,
     Language |-> it.Language, CommitDate |-> 0] : it \in CodeItems }

\* What the commits endpoint can answer: a status and the list of commits,
\* each with its commit.author.date text.
DetailResponses ==
  {[status |-> 200, dates |-> <<d>>] : d \in TimeTexts}
    \cup {[status |-> st, dates |-> <<>>] : st \in {200, 403, 404}}

\* the worker's res.t for a response: cr[0].Commit.Author.Date parsed, on a
\* 200 with a non-empty list; the zero time otherwise
LookupTime(r) ==
  IF r.status = 200 /\ Len(r.dates) > 0 THEN ParseRFC3339(r.dates[1]) ELSE 0

\* (fault) one worker is started per job
WorkerPerJob(hs) == Len(hs)

\* wg.Add(maxConcurrentDetails); for k := 0; k < maxConcurrentDetails; k++ { go worker() }:
\* the number of workers started on the hits hs
PoolSize(hs) == maxConcurrentDetails

\* the workers as they are started, each at `for j := range jobs`
StartedWorkers(hs) == [k \in 1..PoolSize(hs) |-> [pc |-> "recv", i |-> 0, t |-> 0]]

\* jobs <- job{i, h} meets `for j := range jobs` of worker k, which goes on
\* to c.get(reqCtx, url); a context already cancelled fails the request at once
Feed(k) ==
  /\ pc = "pool"
  /\ next >= 1
  /\ next <= Len(hits)
  /\ ~jobsClosed
  /\ wk[k].pc = "recv"
  /\ wk' = [wk EXCEPT ![k] = IF ctxDone
                               THEN [pc |-> "send", i |-> next, t |-> 0]
                               ELSE [pc |-> "get", i |-> next, t |-> 0]]
  /\ looked' = IF ctxDone THEN [looked EXCEPT ![next] = 0] ELSE looked
  /\ next' = next + 1
  /\ UNCHANGED <<hits, jobsClosed, resultsClosed, wg, out, enrichRet>>
  /\ UNCHANGED <<runVars, thrVars, restVars>>

\* close(jobs), after the last job was taken
CloseJobs ==
  /\ pc = "pool"
  /\ next > Len(hits)
  /\ ~jobsClosed
  /\ jobsClosed' = TRUE
  /\ UNCHANGED <<hits, next, resultsClosed, wk, wg, out, looked, enrichRet>>
  /\ UNCHANGED <<runVars, thrVars, restVars>>

\* err != nil: results <- res{j.i, time.Time{}}
LookupErr(k) ==
  /\ wk[k].pc = "get"
  /\ wk' = [wk EXCEPT ![k] = [pc |-> "send", i |-> @.i, t |-> 0]]
  /\ looked' = [looked EXCEPT ![wk[k].i] = 0]
  /\ UNCHANGED <<hits, next, jobsClosed, resultsClosed, wg, out, enrichRet>>
  /\ UNCHANGED <<runVars, thrVars, restVars>>

\* (fault) a lookup is answered though its context is cancelled
LookupRespCancelled(k) ==
  /\ wk[k].pc = "get"
  /\ \E r \in DetailResponses :
       /\ wk' = [wk EXCEPT ![k] = [pc |-> "send", i |-> @.i, t |-> LookupTime(r)]]
       /\ looked' = [looked EXCEPT ![wk[k].i] = LookupTime(r)]
  /\ UNCHANGED <<hits, next, jobsClosed, resultsClosed, wg, out, enrichRet>>
  /\ UNCHANGED <<runVars, thrVars, restVars>>

\* a response: throttleFrom(resp), then the result of the lookup
LookupResp(k) ==
  /\ wk[k].pc = "get"
  /\ ~ctxDone
  /\ \E r \in DetailResponses :
       /\ wk' = [wk EXCEPT ![k] = [pc |-> "send", i |-> @.i, t |-> LookupTime(r)]]
       /\ looked' = [looked EXCEPT ![wk[k].i] = LookupTime(r)]
  /\ UNCHANGED <<hits, next, jobsClosed, resultsClosed, wg, out, enrichRet>>
  /\ UNCHANGED <<runVars, thrVars, restVars>>

\* (fault) the result lands one place further on
StoreNext(o, r) == [o EXCEPT ![(r.i % Len(o)) + 1].CommitDate = r.t]

\* out[r.i].CommitDate = r.t
Store(o, r) == [o EXCEPT ![r.i].CommitDate = r.t]

\* results <- res{...} of worker k meets `for r := range results` of the caller
Publish(k) ==
  /\ pc = "pool"
  /\ ~resultsClosed
  /\ wk[k].pc = "send"
  /\ out' = Store(out, wk[k])
  /\ wk' = [wk EXCEPT ![k] = [pc |-> "recv", i |-> 0, t |-> 0]]
  /\ UNCHANGED <<hits, next, jobsClosed, resultsClosed, wg, looked, enrichRet>>
  /\ UNCHANGED <<runVars, thrVars, restVars>>

\* `range jobs` ends on the closed channel: defer wg.Done()
WorkerExit(k) ==
  /\ wk[k].pc = "recv"
  /\ jobsClosed
  /\ wk' = [wk EXCEPT ![k] = [pc |-> "exit", i |-> 0, t |-> 0]]
  /\ wg' = wg - 1
  /\ UNCHANGED <<hits, next, jobsClosed, resultsClosed, out, looked, enrichRet>>
  /\ UNCHANGED <<runVars, thrVars, restVars>>

\* (fault) close(results) does not wait for the workers: it follows close(jobs)
CloseResultsEarly ==
  /\ pc = "pool"
  /\ jobsClosed
  /\ ~resultsClosed
  /\ resultsClosed' = TRUE
  /\ UNCHANGED <<hits, next, jobsClosed, wk, wg, out, looked, enrichRet>>
  /\ UNCHANGED <<runVars, thrVars, restVars>>

\* wg.Wait(); close(results)
CloseResults ==
  /\ pc = "pool"
  /\ wg = 0
  /\ ~resultsClosed
  /\ resultsClosed' = TRUE
  /\ UNCHANGED <<hits, next, jobsClosed, wk, wg, out, looked, enrichRet>>
  /\ UNCHANGED <<runVars, thrVars, restVars>>

\* `range results` ends on the closed channel: return out
EnrichReturn ==
  /\ pc = "pool"
  /\ resultsClosed
  /\ enrichRet' = out
  /\ pc' = "returned"
  /\ UNCHANGED <<hits, next, jobsClosed, resultsClosed, wk, wg, out, looked>>
  /\ UNCHANGED <<cfg, spec, ctxDone, cancelledIn, lastResp, strictPage, lastEv, unreported, gi, qi, page, found, resp, resp2, after, thrOn,
                 codeHits, repoHits, notes, ret>>
  /\ UNCHANGED <<thrVars, restVars>>

\* --------------------------------------- runSearches: the commit check
\* key := h.Repository + "|" + h.FilePath + "|" + h.FileURL
codeKey(h) == h.Repository \o "|" \o h.FilePath \o "|" \o h.FileURL

\* (fault) every dated hit is kept, however old
KeepDated(h) == ~IsZero(h.CommitDate)

\* if h.CommitDate.IsZero() { continue }; if !h.CommitDate.Before(since) { keep }
KeepHit(h) == ~IsZero(h.CommitDate) /\ ~Before(h.CommitDate, Since)

PoolReset ==
  /\ hits' = <<>>
  /\ next' = 0
  /\ jobsClosed' = FALSE
  /\ resultsClosed' = FALSE
  /\ wk' = [k \in Workers |-> IdleWorker]
  /\ wg' = 0
  /\ out' = <<>>
  /\ looked' = <<>>
  /\ enrichRet' = <<>>

\* if cfg.UseCommitCheck && len(codeHits) > 0 { codeHits = enrichWithCommitDates(...)
StartEnrich ==
  /\ pc = "commitcheck"
  /\ cfg.UseCommitCheck
  /\ Len(codeHits) > 0
  /\ hits' = codeHits
  /\ out' = codeHits
  /\ next' = 1
  /\ pc' = "enrich"
  /\ Emit(Ev("commit-check", "", 0, ""))
  /\ UNCHANGED <<cfg, spec, ctxDone, cancelledIn, lastResp, strictPage, gi, qi, page, found, resp, resp2, after, thrOn,
                 codeHits, repoHits, notes, ret>>
  /\ UNCHANGED <<jobsClosed, resultsClosed, wk, wg, looked, enrichRet>>
  /\ UNCHANGED <<thrVars, restVars>>

SkipEnrich ==
  /\ pc = "commitcheck"
  /\ ~(cfg.UseCommitCheck /\ Len(codeHits) > 0)
  /\ pc' = "finish"
  /\ UNCHANGED <<cfg, spec, ctxDone, cancelledIn, lastResp, strictPage, lastEv, unreported, gi, qi, page, found, resp, resp2, after, thrOn,
                 codeHits, repoHits, notes, ret>>
  /\ UNCHANGED notRun

\* What one job of the pool comes to, seen from runSearches: the jobs are
\* handed out in index order, each lookup is issued when its job is taken (it
\* fails at once under a cancelled context) and its result lands in out[i].
\* (PoolNext below is the pool itself, goroutine by goroutine.)
EnrichJob ==
  /\ pc = "enrich"
  /\ next <= Len(hits)
  /\ \E t \in IF ctxDone THEN {0} ELSE {0} \cup {LookupTime(r) : r \in DetailResponses} :
       out' = Store(out, [i |-> next, t |-> t])
  /\ next' = next + 1
  /\ UNCHANGED runVars
  /\ UNCHANGED <<hits, jobsClosed, resultsClosed, wk, wg, looked, enrichRet>>
  /\ UNCHANGED <<thrVars, restVars>>

\* enrichWithCommitDates has returned out;
\* keep only those with commitDate >= since; drop unverified
CommitCheckFilter ==
  /\ pc = "enrich"
  /\ next > Len(hits)
  /\ codeHits' = SelectSeq(out, KeepHit)
  /\ pc' = "finish"
  /\ PoolReset
  /\ Emit(Ev("commit-check-done", "", 0, ""))
  /\ UNCHANGED <<cfg, spec, ctxDone, cancelledIn, lastResp, strictPage, gi, qi, page, found, resp, resp2, after, thrOn,
                 repoHits, notes, ret>>
  /\ UNCHANGED <<thrVars, restVars>>

\* codeHits = enrichWithCommitDates(ctx, client, since, codeHits), the pool
\* taken goroutine by goroutine: the call is entered
StartPool ==
  /\ pc = "commitcheck"
  /\ cfg.UseCommitCheck
  /\ Len(codeHits) > 0
  /\ hits' = codeHits
  /\ out' = codeHits
  /\ next' = 1
  /\ jobsClosed' = FALSE
  /\ resultsClosed' = FALSE
  /\ wk' = StartedWorkers(codeHits)
  /\ wg' = PoolSize(codeHits)
  /\ looked' = [i \in 1..Len(codeHits) |-> -1]
  /\ enrichRet' = <<>>
  /\ pc' = "pool"
  /\ Emit(Ev("commit-check", "", 0, ""))
  /\ UNCHANGED <<cfg, spec, ctxDone, cancelledIn, lastResp, strictPage, gi, qi, page, found, resp, resp2, after, thrOn,
                 codeHits, repoHits, notes, ret>>
  /\ UNCHANGED <<thrVars, restVars>>

\* the call has returned out; keep only those with commitDate >= since
FilterReturned ==
  /\ pc = "returned"
  /\ rr.pc = "search"
  /\ codeHits' = SelectSeq(enrichRet, KeepHit)
  /\ pc' = "finish"
  /\ PoolReset
  /\ Emit(Ev("commit-check-done", "", 0, ""))
  /\ UNCHANGED <<cfg, spec, ctxDone, cancelledIn, lastResp, strictPage, gi, qi, page, found, resp, resp2, after, thrOn,
                 repoHits, notes, ret>>
  /\ UNCHANGED <<thrVars, restVars>>

\* ------------------------------------------------- sort and deduplicate
\* (fault) the comparison is turned round: oldest first
codeLessOldestFirst(a, b) ==
  LET ai == a.CommitDate
      aj == b.CommitDate
  IN  IF IsZero(ai) /\ IsZero(aj) THEN FALSE
      ELSE IF IsZero(ai) THEN FALSE
      ELSE IF IsZero(aj) THEN TRUE
      ELSE Before(ai, aj)

\* the less function of sort.Slice(codeHits, ...)
codeLess(a, b) ==
  LET ai == a.CommitDate
      aj == b.CommitDate
  IN  IF IsZero(ai) /\ IsZero(aj) THEN FALSE
      ELSE IF IsZero(ai) THEN FALSE
      ELSE IF IsZero(aj) THEN TRUE
      ELSE After(ai, aj)

\* the less function of sort.Slice(repoHits, ...)
repoLess(a, b) == After(a.PushedAt, b.PushedAt)

Perms(n) == {p \in [1..n -> 1..n] : \A i, j \in 1..n : i # j => p[i] # p[j]}

\* What sort.Slice(s, less) can leave in s, less being codeLess ("code") or
\* repoLess ("repo"). The sort is not stable: any arrangement of s in which
\* no later element is less than an earlier one can come out.
Less(kind, a, b) == IF kind = "code" THEN codeLess(a, b) ELSE repoLess(a, b)

SortSlice(s, kind) ==
  {t \in {[i \in 1..Len(s) |-> s[p[i]]] : p \in Perms(Len(s))} :
     \A i, j \in 1..Len(s) : i < j => ~Less(kind, t[j], t[i])}

\* (fault) the key also holds the name of the query that found the hit
dedupeCodePerQuery(in) ==
  LET key(h) == codeKey(h) \o "|" \o h.QueryName
      st[i \in 0..Len(in)] ==
        IF i = 0 THEN [seen |-> {}, out |-> <<>>]
        ELSE IF key(in[i]) \notin st[i - 1].seen
               THEN [seen |-> st[i - 1].seen \cup {key(in[i])},
                     out |-> Append(st[i - 1].out, in[i])]
               ELSE st[i - 1]
  IN  st[Len(in)].out

dedupeCode(in) ==
  LET st[i \in 0..Len(in)] ==
        IF i = 0 THEN [seen |-> {}, out |-> <<>>]
        ELSE IF codeKey(in[i]) \notin st[i - 1].seen
               THEN [seen |-> st[i - 1].seen \cup {codeKey(in[i])},
                     out |-> Append(st[i - 1].out, in[i])]
               ELSE st[i - 1]
  IN  st[Len(in)].out

repoKey(h) == h.FullName

\* (fault) a hit is dropped only when it repeats the hit just before it
dedupeRepoAdjacent(in) ==
  LET st[i \in 0..Len(in)] ==
        IF i = 0 THEN <<>>
        ELSE IF i > 1 /\ repoKey(in[i]) = repoKey(in[i - 1])
               THEN st[i - 1]
               ELSE Append(st[i - 1], in[i])
  IN  st[Len(in)]

dedupeRepo(in) ==
  LET st[i \in 0..Len(in)] ==
        IF i = 0 THEN [seen |-> {}, out |-> <<>>]
        ELSE IF repoKey(in[i]) \notin st[i - 1].seen
               THEN [seen |-> st[i - 1].seen \cup {repoKey(in[i])},
                     out |-> Append(st[i - 1].out, in[i])]
               ELSE st[i - 1]
  IN  st[Len(in)].out

\* sort both lists; return Findings{CodeHits: dedupeCode(codeHits), ...}, nil
Finish ==
  /\ pc = "finish"
  /\ \E sc \in SortSlice(codeHits, "code") :
       \E sr \in SortSlice(repoHits, "repo") :
         /\ codeHits' = sc
         /\ repoHits' = sr
         /\ ret' = [findings |-> [CodeHits |-> dedupeCode(sc),
                                  RepoHits |-> dedupeRepo(sr),
                                  Notes |-> notes],
                    err |-> "nil"]
  /\ pc' = "done"
  /\ LocalsGone
  /\ UNCHANGED <<cfg, spec, ctxDone, cancelledIn>>
  /\ UNCHANGED notRun
  /\ UNCHANGED <<lastEv, unreported>>

\* the lists dedupeCode and dedupeRepo are tried on: the same file found by
\* two queries, a repository found with two push times
DedupeCodeHits == {[h EXCEPT !.QueryName = q] : h \in PoolHits, q \in {"c1", "c3"}}

DedupeRepoHits ==
  {[Group |-> "G1", QueryName |-> "r1", FullName |-> n, PushedAt |-> t] :
     n \in {"o/x", "o/y"}, t \in {Since, MaxDate}}

DedupeInputs ==
  {[kind |-> "code", list |-> l] : l \in {<<>>} \cup SeqsUpTo(DedupeCodeHits, MaxList)}
    \cup {[kind |-> "repo", list |-> l] : l \in {<<>>} \cup SeqsUpTo(DedupeRepoHits, MaxList)}

\* one call of dedupeCode or dedupeRepo
DedupeCall ==
  /\ pc = "dedupe"
  /\ ddOut' = IF ddIn.kind = "code" THEN dedupeCode(ddIn.list) ELSE dedupeRepo(ddIn.list)
  /\ pc' = "deduped"
  /\ UNCHANGED ddIn
  /\ UNCHANGED <<cfg, spec, ctxDone, cancelledIn, lastResp, strictPage, lastEv, unreported, gi, qi, page, found, resp, resp2, after, thrOn,
                 codeHits, repoHits, notes, ret>>
  /\ UNCHANGED <<poolVars, thrVars, escVars, sanVars, emitVars, srvVars>>

\* ----------------------------------------------------------- throttleFrom
\* Header values are texts: sequences of characters. A header that is not
\* sent reads as the empty text (http.Header.Get).
Digits == {"0", "1", "2", "3", "4", "5", "6", "7", "8", "9"}

DigitVal(c) ==
  CASE c = "0" -> 0 [] c = "1" -> 1 [] c = "2" -> 2 [] c = "3" -> 3 [] c = "4" -> 4
    [] c = "5" -> 5 [] c = "6" -> 6 [] c = "7" -> 7 [] c = "8" -> 8 [] c = "9" -> 9

\* strings.TrimSpace
TrimSpace(s) ==
  LET idx == {i \in 1..Len(s) : s[i] # " "}
  IN  IF idx = {} THEN <<>>
      ELSE LET lo == CHOOSE i \in idx : \A j \in idx : i <= j
               hi == CHOOSE i \in idx : \A j \in idx : i >= j
           IN  SubSeq(s, lo, hi)

\* strconv.Atoi / strconv.ParseInt(s, 10, 64): an optional sign, then one or
\* more digits and nothing else; [ok |-> FALSE, val |-> 0] on error
Atoi(s) ==
  LET signed == Len(s) > 0 /\ s[1] \in {"+", "-"}
      d == IF signed THEN Tail(s) ELSE s
      num[i \in 0..Len(d)] == IF i = 0 THEN 0 ELSE num[i - 1] * 10 + DigitVal(d[i])
  IN  IF Len(d) > 0 /\ \A i \in 1..Len(d) : d[i] \in Digits
        THEN [ok |-> TRUE, val |-> IF signed /\ s[1] = "-" THEN 0 - num[Len(d)] ELSE num[Len(d)]]
        ELSE [ok |-> FALSE, val |-> 0]

\* durations in milliseconds
Second == 1000

Minute == 60 * Second

\* (fault) the exhaustion rule is tried before Retry-After
throttleExhaustionFirst(r, now, jitter) ==
  LET resource == ToLower(r.resource)
      baseWait == IF resource = "search" THEN 12 * Second ELSE 1500
      rem == Atoi(r.remaining).val
      ra == Atoi(TrimSpace(r.retryAfter))
      reset == Atoi(r.reset)
      wait == reset.val * Second - now
      capWait == IF resource # "search" THEN 5 * Minute ELSE 2 * Minute
  IN  IF r.status = 403 \/ rem <= 2
        THEN IF reset.ok /\ wait > 0
               THEN [rule |-> "reset", ms |-> (IF wait > capWait THEN capWait ELSE wait) + 500]
             ELSE IF resource = "search"
               THEN [rule |-> "fallback", ms |-> 90 * Second]
               ELSE [rule |-> "fallback", ms |-> 30 * Second]
      ELSE IF r.retryAfter # <<>> /\ ra.ok /\ ra.val > 0
        THEN [rule |-> "retry-after", ms |-> ra.val * Second + 500]
      ELSE [rule |-> "pacing", ms |-> baseWait + jitter]

\* (fault) the two caps are the wrong way round
throttleCapsSwapped(r, now, jitter) ==
  LET resource == ToLower(r.resource)
      baseWait == IF resource = "search" THEN 12 * Second ELSE 1500
      rem == Atoi(r.remaining).val
      ra == Atoi(TrimSpace(r.retryAfter))
      reset == Atoi(r.reset)
      wait == reset.val * Second - now
      capWait == IF resource = "search" THEN 5 * Minute ELSE 2 * Minute
  IN  IF r.retryAfter # <<>> /\ ra.ok /\ ra.val > 0
        THEN [rule |-> "retry-after", ms |-> ra.val * Second + 500]
      ELSE IF r.status = 403 \/ rem <= 2
        THEN IF reset.ok /\ wait > 0
               THEN [rule |-> "reset", ms |-> (IF wait > capWait THEN capWait ELSE wait) + 500]
             ELSE IF resource = "search"
               THEN [rule |-> "fallback", ms |-> 90 * Second]
               ELSE [rule |-> "fallback", ms |-> 30 * Second]
      ELSE [rule |-> "pacing", ms |-> baseWait + jitter]

\* (fault) `if wait > 0` is missing: a reset time that is not ahead is waited for
throttleNoFutureCheck(r, now, jitter) ==
  LET resource == ToLower(r.resource)
      baseWait == IF resource = "search" THEN 12 * Second ELSE 1500
      rem == Atoi(r.remaining).val
      ra == Atoi(TrimSpace(r.retryAfter))
      reset == Atoi(r.reset)
      wait == reset.val * Second - now
      capWait == IF resource # "search" THEN 5 * Minute ELSE 2 * Minute
  IN  IF r.retryAfter # <<>> /\ ra.ok /\ ra.val > 0
        THEN [rule |-> "retry-after", ms |-> ra.val * Second + 500]
      ELSE IF r.status = 403 \/ rem <= 2
        THEN IF reset.ok
               THEN [rule |-> "reset", ms |-> (IF wait > capWait THEN capWait ELSE wait) + 500]
             ELSE IF resource = "search"
               THEN [rule |-> "fallback", ms |-> 90 * Second]
               ELSE [rule |-> "fallback", ms |-> 30 * Second]
      ELSE [rule |-> "pacing", ms |-> baseWait + jitter]

\* (fault) a remaining quota that cannot be read is taken as no sign of
\* exhaustion
throttleRemUnknown(r, now, jitter) ==
  LET resource == ToLower(r.resource)
      baseWait == IF resource = "search" THEN 12 * Second ELSE 1500
      rem == Atoi(r.remaining)
      ra == Atoi(TrimSpace(r.retryAfter))
      reset == Atoi(r.reset)
      wait == reset.val * Second - now
      capWait == IF resource # "search" THEN 5 * Minute ELSE 2 * Minute
  IN  IF r.retryAfter # <<>> /\ ra.ok /\ ra.val > 0
        THEN [rule |-> "retry-after", ms |-> ra.val * Second + 500]
      ELSE IF r.status = 403 \/ (rem.ok /\ rem.val <= 2)
        THEN IF reset.ok /\ wait > 0
               THEN [rule |-> "reset", ms |-> (IF wait > capWait THEN capWait ELSE wait) + 500]
             ELSE IF resource = "search"
               THEN [rule |-> "fallback", ms |-> 90 * Second]
               ELSE [rule |-> "fallback", ms |-> 30 * Second]
      ELSE [rule |-> "pacing", ms |-> baseWait + jitter]

\* throttleFrom(resp) at clock reading `now` (ms since the epoch), with
\* `jitter` = time.Now().UnixNano() % 2000ms: the rule it applies and the
\* argument of its one time.Sleep
throttleFrom(r, now, jitter) ==
  LET resource == ToLower(r.resource)
      baseWait == IF resource = "search" THEN 12 * Second ELSE 1500
      rem == Atoi(r.remaining).val
      ra == Atoi(TrimSpace(r.retryAfter))
      reset == Atoi(r.reset)
      wait == reset.val * Second - now
      capWait == IF resource # "search" THEN 5 * Minute ELSE 2 * Minute
  IN  IF r.retryAfter # <<>> /\ ra.ok /\ ra.val > 0
        THEN [rule |-> "retry-after", ms |-> ra.val * Second + 500]
      ELSE IF r.status = 403 \/ rem <= 2
        THEN IF reset.ok /\ wait > 0
               THEN [rule |-> "reset", ms |-> (IF wait > capWait THEN capWait ELSE wait) + 500]
             ELSE IF resource = "search"
               THEN [rule |-> "fallback", ms |-> 90 * Second]
               ELSE [rule |-> "fallback", ms |-> 30 * Second]
      ELSE [rule |-> "pacing", ms |-> baseWait + jitter]

\* (fault) the `return` after each time.Sleep is missing: the rules that
\* follow the one applied are applied as well
throttleFallsThrough(r, now, jitter) ==
  LET resource == ToLower(r.resource)
      baseWait == IF resource = "search" THEN 12 * Second ELSE 1500
      rem == Atoi(r.remaining).val
      ra == Atoi(TrimSpace(r.retryAfter))
      reset == Atoi(r.reset)
      wait == reset.val * Second - now
      capWait == IF resource # "search" THEN 5 * Minute ELSE 2 * Minute
      first == IF r.retryAfter # <<>> /\ ra.ok /\ ra.val > 0
                 THEN <<[rule |-> "retry-after", ms |-> ra.val * Second + 500]>>
                 ELSE <<>>
      second == IF r.status = 403 \/ rem <= 2
                  THEN (IF reset.ok /\ wait > 0
                          THEN <<[rule |-> "reset", ms |-> (IF wait > capWait THEN capWait ELSE wait) + 500]>>
                          ELSE <<>>)
                       \o <<[rule |-> "fallback", ms |-> IF resource = "search" THEN 90 * Second ELSE 30 * Second]>>
                  ELSE <<>>
  IN  first \o second \o <<[rule |-> "pacing", ms |-> baseWait + jitter]>>

\* throttleFrom(resp) statement by statement: the time.Sleep calls made up
\* to the `return` that ends the call, each with the rule it stands under
throttleSleeps(r, now, jitter) ==
  LET resource == ToLower(r.resource)
      baseWait == IF resource = "search" THEN 12 * Second ELSE 1500
      rem == Atoi(r.remaining).val
      ra == Atoi(TrimSpace(r.retryAfter))
      reset == Atoi(r.reset)
      wait == reset.val * Second - now
      capWait == IF resource # "search" THEN 5 * Minute ELSE 2 * Minute
      first == IF r.retryAfter # <<>> /\ ra.ok /\ ra.val > 0
                 THEN <<[rule |-> "retry-after", ms |-> ra.val * Second + 500]>>
                 ELSE <<>>
      second == IF r.status = 403 \/ rem <= 2
                  THEN IF reset.ok /\ wait > 0
                         THEN <<[rule |-> "reset", ms |-> (IF wait > capWait THEN capWait ELSE wait) + 500]>>
                         ELSE <<[rule |-> "fallback", ms |-> IF resource = "search" THEN 90 * Second ELSE 30 * Second]>>
                  ELSE <<>>
  IN  IF first # <<>> THEN first
      ELSE IF second # <<>> THEN second
      ELSE <<[rule |-> "pacing", ms |-> baseWait + jitter]>>

\* the responses and clock readings throttleFrom is tried on
RetryAfterTexts ==
  { <<>>, <<"5">>, <<" ", "5", " ">>, <<"1", "2", "0">>, <<"0">>, <<"-", "3">>,
    <<"W", "e", "d">> }

RemainingTexts == { <<>>, <<"0">>, <<"2">>, <<"3">>, <<"5", "7">>, <<"x">> }

\* the clock reads 1000.0 s or 1000.4 s
Nows == {1000 * Second, 1000 * Second + 400}

ResetTexts ==
  { <<>>, <<"9", "9", "0">>, <<"1", "0", "0", "0">>, <<"1", "0", "3", "0">>,
    <<"1", "2", "0", "0">>, <<"1", "4", "0", "0">>, <<"x">> }

ThrInputs ==
  [status : {200, 403, 422}, resource : {"search", "Search", "core", ""},
   remaining : RemainingTexts, retryAfter : RetryAfterTexts, reset : ResetTexts,
   now : Nows, jitter : {0, 700, 1999}]

\* one call of throttleFrom
ThrottleCall ==
  /\ thrIn # NoThr
  /\ slept = NoThr
  /\ slept' = throttleFrom(thrIn, thrIn.now, thrIn.jitter)
  /\ sleeps' = throttleSleeps(thrIn, thrIn.now, thrIn.jitter)
  /\ UNCHANGED thrIn
  /\ UNCHANGED <<runVars, poolVars, restVars>>

\* --------------------------------------------------------- urlQueryEscape
\* A query is a text: a sequence of characters.
LowerLetters ==
  {"a", "b", "c", "d", "e", "f", "g", "h", "i", "j", "k", "l", "m", "n", "o", "p", "q", "r", "s", "t", "u", "v", "w", "x", "y", "z"}

UpperLetters ==
  {"A", "B", "C", "D", "E", "F", "G", "H", "I", "J", "K", "L", "M", "N", "O", "P", "Q", "R", "S", "T", "U", "V", "W", "X", "Y", "Z"}

\* the byte of a character that is neither a letter nor a digit
Code(c) ==
  CASE c = " " -> 32 [] c = "%" -> 37 [] c = "(" -> 40 [] c = ")" -> 41 [] c = "+" -> 43
    [] c = "," -> 44 [] c = "-" -> 45 [] c = "." -> 46 [] c = "/" -> 47 [] c = ":" -> 58
    [] c = "<" -> 60 [] c = "=" -> 61 [] c = ">" -> 62 [] c = "_" -> 95 [] c = "|" -> 124
    [] c = "~" -> 126

\* const upperhex = "0123456789ABCDEF"
upperhex == <<"0", "1", "2", "3", "4", "5", "6", "7", "8", "9", "A", "B", "C", "D", "E", "F">>

\* net/url shouldEscape(c, encodeQueryComponent): letters, digits and - _ . ~
\* are left alone, every other byte is escaped
shouldEscape(c) == c \notin (LowerLetters \cup UpperLetters \cup Digits \cup {"-", "_", ".", "~"})

\* the pieces of a text put end to end (the pieces are written out by
\* position, so that a long text needs no deep recursion)
Flatten(ps) ==
  LET idx == UNION {{<<i, k>> : k \in 1..Len(ps[i])} : i \in 1..Len(ps)}
      rank(p) == Cardinality({o \in idx : o[1] < p[1] \/ (o[1] = p[1] /\ o[2] <= p[2])})
  IN  [r \in 1..Cardinality(idx) |->
         LET p == CHOOSE o \in idx : rank(o) = r IN ps[p[1]][p[2]]]

\* net/url QueryEscape: ' ' becomes '+', a byte to escape becomes %XX with
\* upperhex[c>>4] and upperhex[c&15]
QueryEscape(s) ==
  Flatten([i \in 1..Len(s) |->
             IF s[i] = " " THEN <<"+">>
             ELSE IF shouldEscape(s[i])
               THEN <<"%", upperhex[(Code(s[i]) \div 16) + 1], upperhex[(Code(s[i]) % 16) + 1]>>
               ELSE <<s[i]>>])

\* strings.ReplaceAll(s, old, new), old not empty: s itself when old does not
\* occur in it; otherwise the matches are taken from the left and do not overlap
ReplaceAll(s, old, new) ==
  LET n == Len(old)
      match(i) == i + n - 1 <= Len(s) /\ SubSeq(s, i, i + n - 1) = old
      taken[i \in 1..Len(s)] == match(i) /\ \A j \in 1..(i - 1) : j > i - n => ~taken[j]
      covered(i) == \E j \in 1..(i - 1) : j > i - n /\ taken[j]
  IN  IF \A i \in 1..Len(s) : ~match(i)
        THEN s
        ELSE Flatten([i \in 1..Len(s) |->
                        IF taken[i] THEN new ELSE IF covered(i) THEN <<>> ELSE <<s[i]>>])

\* the sixteen strings.ReplaceAll calls of urlQueryEscape, in their order
Restores ==
  << <<<<"%", "3", "A">>, <<":">>>>,
     <<<<"%", "3", "a">>, <<":">>>>,
     <<<<"%", "2", "8">>, <<"(">>>>,
     <<<<"%", "2", "9">>, <<")">>>>,
     <<<<"%", "3", "E">>, <<">">>>>,
     <<<<"%", "3", "e">>, <<">">>>>,
     <<<<"%", "3", "C">>, <<"<">>>>,
     <<<<"%", "3", "c">>, <<"<">>>>,
     <<<<"%", "3", "D">>, <<"=">>>>,
     <<<<"%", "3", "d">>, <<"=">>>>,
     <<<<"%", "2", "C">>, <<",">>>>,
     <<<<"%", "2", "c">>, <<",">>>>,
     <<<<"%", "2", "F">>, <<"/">>>>,
     <<<<"%", "2", "f">>, <<"/">>>>,
     <<<<"%", "7", "C">>, <<"|">>>>,
     <<<<"%", "7", "c">>, <<"|">>>> >>

\* (fault) the strict escaping alone
urlQueryEscapeStrict(q) == QueryEscape(TrimSpace(q))

\* enc := neturl.QueryEscape(strings.TrimSpace(q)); enc = strings.ReplaceAll(...) ...
urlQueryEscape(q) ==
  LET enc[k \in 0..Len(Restores)] ==
        IF k = 0 THEN QueryEscape(TrimSpace(q))
        ELSE ReplaceAll(enc[k - 1], Restores[k][1], Restores[k][2])
  IN  enc[Len(Restores)]

\* the characters the queries tried are made of
EscChars == {"a", "A", "2", "3", "5", "%", ":", "(", ")", ">", "<", "=", ",", "/", "|", " ", "+"}

\* language:python (a,b) stars:>=3
ExampleQuery ==
  <<"l", "a", "n", "g", "u", "a", "g", "e", ":", "p", "y", "t", "h", "o", "n", " ", "(", "a", ",", "b", ")", " ", "s", "t", "a", "r", "s", ":", ">", "=", "3">>

EscInputs == {<<>>} \cup SeqsUpTo(EscChars, MaxQuery) \cup {ExampleQuery}

\* urlQueryEscape(q)
EscapeCall ==
  /\ pc = "escape"
  /\ escOut' = urlQueryEscape(escIn)
  /\ pc' = "escaped"
  /\ UNCHANGED escIn
  /\ UNCHANGED <<cfg, spec, ctxDone, cancelledIn, lastResp, strictPage, lastEv, unreported, gi, qi, page, found, resp, resp2, after, thrOn,
                 codeHits, repoHits, notes, ret>>
  /\ UNCHANGED <<poolVars, thrVars, ddVars, sanVars, emitVars, srvVars>>

\* ------------------------------------------------------ sanitizeCodeQuery
\* var forkQual = regexp.MustCompile(`(?i)\bfork\s*:\s*(true|false|only)\b`)
AlphaLower ==
  <<"a", "b", "c", "d", "e", "f", "g", "h", "i", "j", "k", "l", "m", "n", "o", "p", "q", "r", "s", "t", "u", "v", "w", "x", "y", "z">>

AlphaUpper ==
  <<"A", "B", "C", "D", "E", "F", "G", "H", "I", "J", "K", "L", "M", "N", "O", "P", "Q", "R", "S", "T", "U", "V", "W", "X", "Y", "Z">>

\* (?i): a letter is matched whatever its case
Fold(c) == IF c \in UpperLetters THEN AlphaLower[CHOOSE k \in 1..26 : AlphaUpper[k] = c] ELSE c

\* \s of the regexp, and the white space strings.Fields splits on
IsSpace(c) == c \in {" ", "\t"}

\* \w of the regexp
IsWord(c) == c \in (LowerLetters \cup UpperLetters \cup Digits \cup {"_"})

WordAt(s, i) == i >= 1 /\ i <= Len(s) /\ IsWord(s[i])

\* \b holds between s[i-1] and s[i]
Boundary(s, i) == WordAt(s, i - 1) # WordAt(s, i)

\* the literal w, case folded, is at position i of s
FoldMatch(s, i, w) ==
  /\ i + Len(w) - 1 <= Len(s)
  /\ \A k \in 1..Len(w) : Fold(s[i + k - 1]) = w[k]

\* \s* from position j of s: the position of the first character that is no
\* white space, Len(s) + 1 if there is none
SkipSpace(s, j) ==
  CHOOSE k \in j..(Len(s) + 1) :
    /\ k > Len(s) \/ ~IsSpace(s[k])
    /\ \A m \in j..(k - 1) : IsSpace(s[m])

ForkValues == {<<"t", "r", "u", "e">>, <<"f", "a", "l", "s", "e">>, <<"o", "n", "l", "y">>}

\* forkQual matched at position i of s: the position after the match, 0 if
\* there is no match at i
MatchEnd(s, i) ==
  LET colon == SkipSpace(s, i + 4)
      value == SkipSpace(s, colon + 1)
      ws == {w \in ForkValues : FoldMatch(s, value, w) /\ Boundary(s, value + Len(w))}
  IN  IF /\ Boundary(s, i)
         /\ FoldMatch(s, i, <<"f", "o", "r", "k">>)
         /\ colon <= Len(s)
         /\ s[colon] = ":"
         /\ ws # {}
        THEN value + Len(CHOOSE w \in ws : TRUE)
        ELSE 0

\* forkQual.ReplaceAllString(q, ""): one pass over q from the left, the
\* matches taken as they come and not overlapping, each replaced by nothing
StripFork(s) ==
  LET taken[i \in 1..Len(s)] ==
        /\ MatchEnd(s, i) # 0
        /\ \A j \in 1..(i - 1) : (MatchEnd(s, j) > i) => ~taken[j]
      covered(i) == \E j \in 1..i : i < MatchEnd(s, j) /\ taken[j]
  IN  Flatten([i \in 1..Len(s) |-> IF covered(i) THEN <<>> ELSE <<s[i]>>])

\* strings.Join(strings.Fields(q), " ")
JoinFields(s) ==
  Flatten([i \in 1..Len(s) |->
             IF IsSpace(s[i]) THEN <<>>
             ELSE IF (i > 1 /\ IsSpace(s[i - 1])) /\ (\E j \in 1..(i - 1) : ~IsSpace(s[j]))
               THEN <<" ", s[i]>>
               ELSE <<s[i]>>])

\* sanitizeCodeQuery(q)
sanitizeCodeQuery(q) == TrimSpace(JoinFields(StripFork(q)))

\* the pieces the raw queries are made of
\*   fork:   true   fork:true   FORK :<tab>Only   fork:falsey   a   and a space
Chunks ==
  { <<"f", "o", "r", "k", ":">>,
    <<"t", "r", "u", "e">>,
    <<"f", "o", "r", "k", ":", "t", "r", "u", "e">>,
    <<"F", "O", "R", "K", " ", ":", "\t", "O", "n", "l", "y">>,
    <<"f", "o", "r", "k", ":", "f", "a", "l", "s", "e", "y">>,
    <<"a">>,
    <<" ">> }

\* the raw queries: up to n pieces put end to end
SanInputs(n) == {<<>>} \cup {Flatten(cs) : cs \in SeqsUpTo(Chunks, n)}

\* rawQ := sanitizeCodeQuery(q.Query)
SanitizeCall ==
  /\ pc = "sanitize"
  /\ sanOut' = sanitizeCodeQuery(sanIn)
  /\ pc' = "sanitized"
  /\ UNCHANGED sanIn
  /\ UNCHANGED <<cfg, spec, ctxDone, cancelledIn, lastResp, strictPage, lastEv, unreported, gi, qi, page, found, resp, resp2, after, thrOn,
                 codeHits, repoHits, notes, ret>>
  /\ UNCHANGED <<poolVars, thrVars, ddVars, escVars, emitVars, srvVars>>

\* ---------------------------------------------------------------- emitFunc
\* the last n elements of s, all of s if it has no more
LastN(s, n) == IF Len(s) > n THEN SubSeq(s, Len(s) - n + 1, Len(s)) ELSE s

NotInEmit == <<cfg, spec, ctxDone, pc, gi, qi, page, found, resp, resp2, after, thrOn,
               codeHits, repoHits, notes, ret, cancelledIn, lastResp, strictPage, lastEv, unreported,
               poolVars, thrVars, ddVars, escVars, sanVars, srvVars>>

\* emit(DebugEvent{Phase: ...}): ev.TS = time.Now()...; ev.RunID = runID
EmitEnter(e) ==
  /\ pc = "emit"
  /\ em[e].pc = "idle"
  /\ nextEv <= MaxEmits
  /\ em' = [em EXCEPT ![e] = [pc |-> "stamped", run |-> @.run,
                              ev |-> [id |-> nextEv, RunID |-> @.run, Phase |-> e],
                              local |-> <<>>]]
  /\ nextEv' = nextEv + 1
  /\ UNCHANGED <<runs, runsMu, emitDone>>
  /\ UNCHANGED NotInEmit

\* (fault) the lock is not waited for
EmitLockFree(e) ==
  /\ em[e].pc = "stamped"
  /\ runsMu' = e
  /\ em' = [em EXCEPT ![e].pc = "locked"]
  /\ UNCHANGED <<runs, nextEv, emitDone>>
  /\ UNCHANGED NotInEmit

\* s.runsMu.Lock()
EmitLock(e) ==
  /\ em[e].pc = "stamped"
  /\ runsMu = 0
  /\ runsMu' = e
  /\ em' = [em EXCEPT ![e].pc = "locked"]
  /\ UNCHANGED <<runs, nextEv, emitDone>>
  /\ UNCHANGED NotInEmit

\* s.runs[runID] = append(s.runs[runID], ev): the list is read
EmitRead(e) ==
  /\ em[e].pc = "locked"
  /\ em' = [em EXCEPT ![e].pc = "read", ![e].local = runs[em[e].run]]
  /\ UNCHANGED <<runs, runsMu, nextEv, emitDone>>
  /\ UNCHANGED NotInEmit

\* ... and the list with ev at its end is stored
EmitWrite(e) ==
  /\ em[e].pc = "read"
  /\ runs' = [runs EXCEPT ![em[e].run] = Append(em[e].local, em[e].ev)]
  /\ em' = [em EXCEPT ![e].pc = "written", ![e].local = <<>>]
  /\ UNCHANGED <<runsMu, nextEv, emitDone>>
  /\ UNCHANGED NotInEmit

\* if len(s.runs[runID]) > 1000 { s.runs[runID] = s.runs[runID][len(s.runs[runID])-1000:] }
EmitTrim(e) ==
  /\ em[e].pc = "written"
  /\ runs' = [runs EXCEPT ![em[e].run] = LastN(@, RingCap)]
  /\ em' = [em EXCEPT ![e].pc = "trimmed"]
  /\ UNCHANGED <<runsMu, nextEv, emitDone>>
  /\ UNCHANGED NotInEmit

\* s.runsMu.Unlock(); log.Printf(...): the call is over
EmitUnlock(e) ==
  /\ em[e].pc = "trimmed"
  /\ runsMu' = 0
  /\ emitDone' = [emitDone EXCEPT ![em[e].run] = Append(@, em[e].ev)]
  /\ em' = [em EXCEPT ![e].pc = "idle", ![e].ev = NoEvent]
  /\ UNCHANGED <<runs, nextEv>>
  /\ UNCHANGED NotInEmit

\* ------------------------------------------------------------ the Server
\* The request bodies of /api/save-settings that are tried beside the runs:
\* one with MaxPages out of range, one in range.
SaveBodies ==
  { [DaysBack |-> 0, OpenAIModel |-> "", MaxPages |-> 0, PerPage |-> 101,
     UseCommitCheck |-> TRUE, IncludeRepoSearch |-> TRUE],
    [DaysBack |-> 1, OpenAIModel |-> "m", MaxPages |-> 1, PerPage |-> 10,
     UseCommitCheck |-> FALSE, IncludeRepoSearch |-> FALSE] }

\* The decoded bodies tried on their own: every field at the two ends of its
\* range and just outside them (a field the body leaves out decodes as 0 or "").
AllSaveBodies ==
  [DaysBack : {-1, 0, 1, 365, 366}, OpenAIModel : {"", "m"}, MaxPages : {0, 1, 10, 11},
   PerPage : {0, 9, 10, 100, 101}, UseCommitCheck : BOOLEAN, IncludeRepoSearch : {TRUE}]

\* (fault) the upper ends of the ranges are not enforced
SaneBoundsNoUpper(in) ==
  [in EXCEPT !.DaysBack = IF in.DaysBack < 1 THEN defaultDaysBack ELSE @,
             !.MaxPages = IF in.MaxPages < 1 THEN maxPagesDefault ELSE @,
             !.PerPage = IF in.PerPage < 10 THEN perPageDefault ELSE @,
             !.OpenAIModel = IF in.OpenAIModel = "" THEN defaultModel ELSE @]

\* // enforce sane bounds
SaneBounds(in) ==
  [in EXCEPT !.DaysBack = IF in.DaysBack < 1 \/ in.DaysBack > 365 THEN defaultDaysBack ELSE @,
             !.MaxPages = IF in.MaxPages < 1 \/ in.MaxPages > 10 THEN maxPagesDefault ELSE @,
             !.PerPage = IF in.PerPage < 10 \/ in.PerPage > 100 THEN perPageDefault ELSE @,
             !.OpenAIModel = IF in.OpenAIModel = "" THEN defaultModel ELSE @]

\* handleSaveSettings: s.mu.Lock(); s.cfg = in; s.saved = true; s.mu.Unlock()
handleSaveSettings(body) ==
  /\ srv' = [srv EXCEPT !.cfg = SaneBounds(body), !.saved = TRUE]
  /\ sv' = [body |-> body, code |-> 200]
  /\ UNCHANGED <<envTokens, hr, rr>>
  /\ UNCHANGED <<runVars, poolVars, thrVars, fnVars>>

\* handleSaveSettings, the body does not decode: http.Error(w, ..., 400); return
SaveBadBody ==
  /\ sv' = [body |-> "none", code |-> 400]
  /\ UNCHANGED <<srv, envTokens, hr, rr>>
  /\ UNCHANGED <<runVars, poolVars, thrVars, fnVars>>

\* http.Error(w, ..., 400); return
Reject ==
  /\ rr' = [pc |-> "idle", code |-> 400]
  /\ UNCHANGED <<srv, envTokens, hr, sv>>
  /\ UNCHANGED <<runVars, poolVars, thrVars, fnVars>>

\* lines 500-536: the run gets its id, emits its "start" event, the Server is
\* marked in progress, and runSearches is called with the cfg read from s.cfg
\* (of which the fields modelled in runSearches are kept) and the loaded spec
StartRun(c, sp) ==
  /\ pc = "norun"
  /\ rr' = [pc |-> "search", code |-> 0]
  /\ cfg' = [MaxPages |-> c.MaxPages, UseCommitCheck |-> c.UseCommitCheck,
             IncludeRepoSearch |-> c.IncludeRepoSearch]
  /\ spec' = sp
  /\ ctxDone' = FALSE
  /\ pc' = "loop"
  /\ gi' = 1
  /\ qi' = 1
  /\ Emit(StartEv)
  /\ UNCHANGED <<page, found, resp, resp2, after, thrOn, codeHits, repoHits, notes, ret,
                 cancelledIn, lastResp, strictPage>>
  /\ UNCHANGED <<envTokens, hr, poolVars, thrVars, fnVars>>

MarkRunning(s) ==
  [s EXCEPT !.lastRunID = "new", !.inProgress = TRUE, !.status = "Running GitHub searches..."]

\* (fault) the saved flag is not looked at
RunUnsaved ==
  /\ rr.pc = "idle"
  /\ ~srv.saved
  /\ envTokens
  /\ \E sp \in QuerySpecs : StartRun(srv.cfg, sp)
  /\ srv' = MarkRunning(srv)
  /\ UNCHANGED sv

\* if !s.saved { http.Error(w, "Save settings first.", 400); return }
RejectUnsaved ==
  /\ rr.pc = "idle"
  /\ ~srv.saved
  /\ Reject

\* if os.Getenv("GITHUB_TOKEN") == "" || os.Getenv("OPENAI_API_KEY") == ""
RejectNoTokens ==
  /\ rr.pc = "idle"
  /\ srv.saved
  /\ ~envTokens
  /\ Reject

\* spec, err := loadQueries(s.cfg.QueriesFile); err != nil
RejectQueries ==
  /\ rr.pc = "idle"
  /\ srv.saved
  /\ envTokens
  /\ Reject

\* handleRunReport up to the call of runSearches
AcceptReport ==
  /\ rr.pc = "idle"
  /\ srv.saved
  /\ envTokens
  /\ \E sp \in QuerySpecs : StartRun(srv.cfg, sp)
  /\ srv' = MarkRunning(srv)
  /\ UNCHANGED sv

\* What copying s.cfg can give while `s.cfg = in` of a save is storing it:
\* each field from the one or from the other.
TornReads(old, new) ==
  { c \in Settings : /\ c.MaxPages \in {old.MaxPages, new.MaxPages}
                     /\ c.UseCommitCheck \in {old.UseCommitCheck, new.UseCommitCheck}
                     /\ c.IncludeRepoSearch \in {old.IncludeRepoSearch, new.IncludeRepoSearch} }

\* handleRunReport reads s.cfg without the lock: the same, with a save
\* storing s.cfg while runSearches(ctx, s.cfg, ...) copies it
AcceptReportRacing ==
  /\ rr.pc = "idle"
  /\ srv.saved
  /\ envTokens
  /\ \E body \in SaveBodies :
       /\ \E sp \in QuerySpecs :
            \E c \in TornReads(srv.cfg, SaneBounds(body)) : StartRun(c, sp)
       /\ srv' = MarkRunning([srv EXCEPT !.cfg = SaneBounds(body)])
       /\ sv' = [body |-> body, code |-> 200]

\* the deferred func: s.inProgress = false; s.status = "Done."
Deferred(s) == [s EXCEPT !.inProgress = FALSE, !.status = "Done."]

\* (fault) the failed search is stored like a report
SearchFailedStored ==
  /\ rr.pc = "search"
  /\ pc = "done"
  /\ ret.err # "nil"
  /\ rr' = [pc |-> "responded", code |-> 500]
  /\ srv' = Deferred([srv EXCEPT !.markdown = "fallback", !.raw = ret.findings])
  /\ UNCHANGED <<envTokens, hr, sv>>
  /\ UNCHANGED <<runVars, poolVars, thrVars, fnVars>>

\* if err != nil { http.Error(w, "search error: "+err.Error(), 500); return }
SearchFailed ==
  /\ rr.pc = "search"
  /\ pc = "done"
  /\ ret.err # "nil"
  /\ rr' = [pc |-> "responded", code |-> 500]
  /\ srv' = Deferred(srv)
  /\ UNCHANGED <<envTokens, hr, sv>>
  /\ UNCHANGED <<runVars, poolVars, thrVars, fnVars>>

\* s.status = "Drafting report with OpenAI..."; md, err := draftReportWithOpenAI(...)
StartDraft ==
  /\ rr.pc = "search"
  /\ pc = "done"
  /\ ret.err = "nil"
  /\ rr' = [pc |-> "draft", code |-> 0]
  /\ srv' = [srv EXCEPT !.status = "Drafting report with OpenAI..."]
  /\ UNCHANGED <<envTokens, hr, sv>>
  /\ UNCHANGED <<runVars, poolVars, thrVars, fnVars>>

\* draftReportWithOpenAI returns a text, an error or a blank text (the last two
\* give buildFallbackMarkdown); s.markdown = md; s.raw = findings; 200
DraftReturns ==
  /\ rr.pc = "draft"
  /\ \E md \in {"drafted", "fallback"} :
       srv' = Deferred([srv EXCEPT !.markdown = md, !.raw = ret.findings])
  /\ rr' = [pc |-> "responded", code |-> 200]
  /\ UNCHANGED <<envTokens, hr, sv>>
  /\ UNCHANGED <<runVars, poolVars, thrVars, fnVars>>

\* ------------------------------------- run-report requests side by side
\* handleStatus: ip := s.inProgress; st := s.status, under s.mu.RLock()
handleStatus == [inProgress |-> srv.inProgress, status |-> srv.status]

NotInReport == <<envTokens, sv, rr, runVars, poolVars, thrVars, fnVars>>

\* handleRunReport of request h passes its checks, marks the Server in
\* progress and calls runSearches
ReportStart(h) ==
  /\ pc = "norun"
  /\ hr[h] = "idle"
  /\ srv.saved
  /\ envTokens
  /\ srv' = MarkRunning(srv)
  /\ hr' = [hr EXCEPT ![h] = "search"]
  /\ UNCHANGED NotInReport

\* runSearches of request h returns an error: 500, return, the deferred func
ReportSearchFailed(h) ==
  /\ hr[h] = "search"
  /\ srv' = Deferred(srv)
  /\ hr' = [hr EXCEPT ![h] = "idle"]
  /\ UNCHANGED NotInReport

\* runSearches of request h returns a Findings: s.status = "Drafting report with OpenAI..."
ReportDraft(h) ==
  /\ hr[h] = "search"
  /\ srv' = [srv EXCEPT !.status = "Drafting report with OpenAI..."]
  /\ hr' = [hr EXCEPT ![h] = "draft"]
  /\ UNCHANGED NotInReport

\* the draft of request h is in: s.markdown = md; s.raw = findings; 200,
\* return, the deferred func
ReportDone(h) ==
  /\ hr[h] = "draft"
  /\ \E md \in {"drafted", "fallback"} :
       srv' = Deferred([srv EXCEPT !.markdown = md])
  /\ hr' = [hr EXCEPT ![h] = "idle"]
  /\ UNCHANGED NotInReport

\* ---------------------------------------------------------- specifications
\* the primary searches, and the return
SearchNext ==
  \/ Cancel
  \/ SkipGroup
  \/ EndGroup
  \/ SkipSearch
  \/ StartCode
  \/ SkipRepo
  \/ StartRepo
  \/ UnknownType
  \/ EndLoop
  \/ CheckCancelled
  \/ IssueRequest
  \/ RespTransportErr
  \/ RespFail
  \/ Resp422
  \/ RespBadBody
  \/ RespZero
  \/ RespCodeItems
  \/ RespRepoItems
  \/ RetryTransportErr
  \/ RetryFail
  \/ RetryBadBody
  \/ RetryZero
  \/ RetryItems
  \/ ThrottleDone
  \/ EndSearch
  \/ SkipEnrich
  \/ Finish

\* runSearches, the enrichment taken job by job
RunNext ==
  \/ SearchNext
  \/ StartEnrich
  \/ EnrichJob
  \/ CommitCheckFilter

PoolNext ==
  \/ Cancel
  \/ \E k \in DOMAIN wk : Feed(k)
  \/ CloseJobs
  \/ \E k \in DOMAIN wk : LookupErr(k)
  \/ \E k \in DOMAIN wk : LookupResp(k)
  \/ \E k \in DOMAIN wk : Publish(k)
  \/ \E k \in DOMAIN wk : WorkerExit(k)
  \/ CloseResults
  \/ EnrichReturn

\* runSearches as handleRunReport calls it, and what the handler does with
\* what it returns
Next ==
  \/ RunNext
  \/ SearchFailed
  \/ StartDraft
  \/ DraftReturns

Spec == Init /\ [][Next]_vars

\* the same, the enrichment taken goroutine by goroutine
RunPoolNext ==
  \/ SearchNext
  \/ StartPool
  \/ \E k \in DOMAIN wk : Feed(k)
  \/ CloseJobs
  \/ \E k \in DOMAIN wk : LookupErr(k)
  \/ \E k \in DOMAIN wk : LookupResp(k)
  \/ \E k \in DOMAIN wk : Publish(k)
  \/ \E k \in DOMAIN wk : WorkerExit(k)
  \/ CloseResults
  \/ EnrichReturn
  \/ FilterReturned
  \/ SearchFailed
  \/ StartDraft
  \/ DraftReturns

SpecRunPool == Init /\ [][RunPoolNext]_vars


\* enrichWithCommitDates on its own, for every list of at most MaxJobs hits
PoolInputs == {<<>>} \cup SeqsUpTo(PoolHits, MaxJobs)

\* no runSearches call is running
RunIdle ==
  /\ cfg = [MaxPages |-> 1, UseCommitCheck |-> TRUE, IncludeRepoSearch |-> FALSE]
  /\ spec = QS1
  /\ gi = 0
  /\ qi = 0
  /\ page = 0
  /\ found = 0
  /\ resp = NoResp
  /\ resp2 = NoResp
  /\ after = "none"
  /\ thrOn = "none"
  /\ codeHits = <<>>
  /\ repoHits = <<>>
  /\ notes = <<>>
  /\ ret = NoRet
  /\ cancelledIn = "none"
  /\ lastResp = "none"
  /\ strictPage = 0
  /\ lastEv = StartEv
  /\ unreported = FALSE

InitPool ==
  /\ RunIdle
  /\ ctxDone \in BOOLEAN
  /\ pc = "pool"
  /\ hits \in PoolInputs
  /\ next = 1
  /\ jobsClosed = FALSE
  /\ resultsClosed = FALSE
  /\ wk = StartedWorkers(hits)
  /\ wg = PoolSize(hits)
  /\ out = hits
  /\ looked = [i \in 1..Len(hits) |-> -1]
  /\ enrichRet = <<>>
  /\ ThrIdle
  /\ RestIdle

SpecPool == InitPool /\ [][PoolNext]_vars

\* a step of one of the goroutines of the pool
PoolStep ==
  \/ \E k \in DOMAIN wk : Feed(k)
  \/ CloseJobs
  \/ \E k \in DOMAIN wk : LookupErr(k)
  \/ \E k \in DOMAIN wk : LookupResp(k)
  \/ \E k \in DOMAIN wk : Publish(k)
  \/ \E k \in DOMAIN wk : WorkerExit(k)
  \/ CloseResults
  \/ EnrichReturn

\* the Go scheduler runs a goroutine that can take a step, and c.get comes
\* back (reqCtx has a timeout of 10 s): the pool does not stand still while
\* one of its goroutines can move
SpecPoolFair == InitPool /\ [][PoolNext]_vars /\ WF_vars(PoolStep)


\* throttleFrom on its own, for every response and clock reading in ThrInputs
InitThrottle ==
  /\ RunIdle
  /\ ctxDone = FALSE
  /\ pc = "off"
  /\ PoolIdle
  /\ thrIn \in ThrInputs
  /\ slept = NoThr
  /\ sleeps = <<>>
  /\ RestIdle

ThrottleNext == ThrottleCall

SpecThrottle == InitThrottle /\ [][ThrottleNext]_vars

\* dedupeCode and dedupeRepo on their own, for every list in DedupeInputs
InitDedupe ==
  /\ RunIdle
  /\ ctxDone = FALSE
  /\ pc = "dedupe"
  /\ PoolIdle
  /\ ThrIdle
  /\ ddIn \in DedupeInputs
  /\ ddOut = <<>>
  /\ EscIdle
  /\ SanIdle
  /\ EmitIdle
  /\ SrvIdle

DedupeNext == DedupeCall

SpecDedupe == InitDedupe /\ [][DedupeNext]_vars

\* urlQueryEscape on its own, for every query in EscInputs
InitEscape ==
  /\ RunIdle
  /\ ctxDone = FALSE
  /\ pc = "escape"
  /\ PoolIdle
  /\ ThrIdle
  /\ DdIdle
  /\ SanIdle
  /\ EmitIdle
  /\ escIn \in EscInputs
  /\ escOut = <<>>
  /\ SrvIdle

EscapeNext == EscapeCall

SpecEscape == InitEscape /\ [][EscapeNext]_vars

\* sanitizeCodeQuery on its own
InitSanitize ==
  /\ RunIdle
  /\ ctxDone = FALSE
  /\ pc = "sanitize"
  /\ PoolIdle
  /\ ThrIdle
  /\ DdIdle
  /\ EscIdle
  /\ EmitIdle
  /\ sanIn \in SanInputs(MaxChunks)
  /\ sanOut = <<>>
  /\ SrvIdle

SanitizeNext == SanitizeCall

SpecSanitize == InitSanitize /\ [][SanitizeNext]_vars

\* emit called from two goroutines, on one run identifier or on two
InitEmit ==
  /\ RunIdle
  /\ ctxDone = FALSE
  /\ pc = "emit"
  /\ PoolIdle
  /\ ThrIdle
  /\ DdIdle
  /\ EscIdle
  /\ SanIdle
  /\ runs = NoRuns
  /\ runsMu = 0
  /\ \E rs \in [Emitters -> RunIDs] :
       em = [e \in Emitters |-> [pc |-> "idle", run |-> rs[e], ev |-> NoEvent, local |-> <<>>]]
  /\ nextEv = 1
  /\ emitDone = NoRuns
  /\ SrvIdle

EmitNext ==
  \/ \E e \in Emitters : EmitEnter(e)
  \/ \E e \in Emitters : EmitLock(e)
  \/ \E e \in Emitters : EmitRead(e)
  \/ \E e \in Emitters : EmitWrite(e)
  \/ \E e \in Emitters : EmitTrim(e)
  \/ \E e \in Emitters : EmitUnlock(e)

SpecEmit == InitEmit /\ [][EmitNext]_vars

\* the Server from its start: /api/save-settings and /api/run-report, up to
\* the answer to the first report that is not rejected
InitServer ==
  /\ RunIdle
  /\ ctxDone = FALSE
  /\ pc = "norun"
  /\ PoolIdle
  /\ ThrIdle
  /\ FnIdle
  /\ srv = NewServer
  /\ envTokens \in BOOLEAN
  /\ sv = NoSave
  /\ hr = NoHandlers
  /\ rr = NoRequest

ServerNext ==
  \/ \E body \in SaveBodies : handleSaveSettings(body)
  \/ SaveBadBody
  \/ RejectUnsaved
  \/ RejectNoTokens
  \/ RejectQueries
  \/ AcceptReport
  \/ AcceptReportRacing
  \/ rr.pc = "search" /\ RunNext
  \/ SearchFailed
  \/ StartDraft
  \/ DraftReturns

SpecServer == InitServer /\ [][ServerNext]_vars

\* the save-settings requests on their own, from the Server as main builds it
SettingsNext ==
  \/ \E body \in AllSaveBodies : handleSaveSettings(body)
  \/ SaveBadBody

SpecSettings == InitServer /\ [][SettingsNext]_vars

\* save-settings and run-report requests, the run-reports side by side
StatusNext ==
  \/ \E body \in SaveBodies : handleSaveSettings(body)
  \/ SaveBadBody
  \/ \E h \in Handlers : ReportStart(h)
  \/ \E h \in Handlers : ReportSearchFailed(h)
  \/ \E h \in Handlers : ReportDraft(h)
  \/ \E h \in Handlers : ReportDone(h)

SpecStatus == InitServer /\ [][StatusNext]_vars

\* ------------------------------------------------------------ properties
Cancelled == [findings |-> EmptyFindings, err |-> "canceled"]

IsPrefix(a, b) == Len(a) <= Len(b) /\ SubSeq(b, 1, Len(a)) = a

\* C1: in every Findings runSearches returns, no two CodeHits have the same
\* (Repository, FilePath, FileURL) and no two RepoHits have the same FullName.
C1_UniqueKeys ==
  pc = "done" =>
    LET ch == ret.findings.CodeHits
        rh == ret.findings.RepoHits
    IN  /\ \A i, j \in 1..Len(ch) :
             i # j => <<ch[i].Repository, ch[i].FilePath, ch[i].FileURL>>
                        # <<ch[j].Repository, ch[j].FilePath, ch[j].FileURL>>
        /\ \A i, j \in 1..Len(rh) : i # j => rh[i].FullName # rh[j].FullName

\* a run that found the same file twice and returned it once
C1_Witness ==
  /\ pc = "done"
  /\ ret.err = "nil"
  /\ Len(codeHits) = 2
  /\ Len(ret.findings.CodeHits) = 1

\* C2: in every Findings runSearches returns, CodeHits is non-increasing by
\* CommitDate with every undated hit after every dated one, and RepoHits is
\* non-increasing by PushedAt (the lists are those left by dedupeCode and
\* dedupeRepo, which run after the sort).
C2_Sorted ==
  pc = "done" =>
    LET ch == ret.findings.CodeHits
        rh == ret.findings.RepoHits
    IN  /\ \A i, j \in 1..Len(ch) :
             i < j => /\ IsZero(ch[i].CommitDate) => IsZero(ch[j].CommitDate)
                      /\ ~IsZero(ch[j].CommitDate) => ch[i].CommitDate >= ch[j].CommitDate
        /\ \A i, j \in 1..Len(rh) : i < j => rh[i].PushedAt >= rh[j].PushedAt

\* a run that returned two code hits of different dates
C2_Witness ==
  /\ pc = "done"
  /\ ret.err = "nil"
  /\ Len(ret.findings.CodeHits) = 2
  /\ ret.findings.CodeHits[1].CommitDate > ret.findings.CodeHits[2].CommitDate

\* C3: enrichWithCommitDates, called with N hits, returns N hits, the i-th
\* being the i-th input hit with CommitDate set to what the lookup of job i
\* produced, and every job was looked up -- whatever the workers' schedule,
\* for every N from 0 to MaxJobs.
C3_Positional ==
  pc = "returned" =>
    /\ Len(enrichRet) = Len(hits)
    /\ \A i \in 1..Len(hits) :
         /\ looked[i] >= 0
         /\ enrichRet[i] = [hits[i] EXCEPT !.CommitDate = looked[i]]

\* more jobs than workers, lookups of different outcomes
C3_Witness ==
  /\ pc = "returned"
  /\ Len(hits) > maxConcurrentDetails
  /\ looked[1] = Since
  /\ looked[2] = 0
  /\ looked[3] = MaxDate

\* C4: if the context is cancelled when the loop is about to request a page,
\* the one thing runSearches does is return ctx.Err() with an empty Findings;
\* no request is made then or after.
C4_CancelledAtCheck ==
  [][ /\ (pc = "check" /\ ctxDone) => (pc' = "done" /\ ret' = Cancelled)
      /\ pc = "done" => pc' = "done" ]_vars

\* cancelled before page 2, with hits of page 1 in hand
C4_Witness ==
  /\ pc = "check"
  /\ ctxDone
  /\ page = 2
  /\ Total > 0

\* C5 as the specification has it: a run whose context is cancelled while a
\* page request is in flight, during a throttleFrom pause or between two
\* searches ends with the cancellation error and an empty Findings.
C5_CancelledInSearchPhase ==
  (pc = "done" /\ cancelledIn \in {"ahead", "last"}) => ret = Cancelled

\* C5, amended: a cancellation ends the run with the cancellation error and an
\* empty Findings if it comes while a first (lenient) page request is in
\* flight or while a page-request check of the run is still to come; if it
\* comes during the strict retry or a pause after which no page request is
\* left, the run returns a Findings and no error.
C5_CancelledBeforeACheck ==
  pc = "done" =>
    /\ cancelledIn = "ahead" => ret = Cancelled
    /\ cancelledIn = "last" => ret.err = "nil"

\* a run cancelled with hits in hand, which dropped them
C5_Witness ==
  /\ pc = "done"
  /\ cancelledIn = "ahead"
  /\ ret = Cancelled
  /\ Total > 0

\* C6: a 422 on a code-search page is followed by one strict request of the
\* same page and no second one; a 200 with items from it appends the items as
\* CodeHits and advances page by one; and a hit once appended stays in
\* codeHits to the end of the search phase, survives the commit check when
\* that is off or when the hit's date is set and inside the window, and is
\* in the returned CodeHits by its key.
C6_StrictRetry ==
  [][ /\ (pc = "request" /\ resp'.status = 422 /\ Kind = "code") => pc' = "retry"
      /\ (pc = "request" /\ pc' = "retry") =>
           (resp'.status = 422 /\ Kind = "code" /\ page' = page /\ codeHits' = codeHits)
      /\ (pc = "retry" /\ pc' # "retry") => pc' \in {"throttle", "endsearch", "done"}
      /\ (pc = "retry" /\ resp2'.status = 200 /\ resp2'.items # <<>>) =>
           /\ codeHits' = codeHits \o CodeHitsOf(resp2'.items)
           /\ page' = page + 1
           /\ pc' = "throttle"
      /\ pc' \notin {"finish", "done"} => IsPrefix(codeHits, codeHits')
      /\ (pc = "commitcheck" /\ pc' = "finish") => codeHits' = codeHits
      /\ pc = "enrich" => hits = codeHits
      /\ (pc = "enrich" /\ pc' = "enrich") =>
           \A i \in 1..Len(out) : out'[i] = out[i] \/ out'[i] = [hits[i] EXCEPT !.CommitDate = out'[i].CommitDate]
      /\ (pc = "enrich" /\ pc' = "finish") =>
           \A i \in 1..Len(out) :
             (out[i].CommitDate # 0 /\ out[i].CommitDate >= Since)
               => \E j \in 1..Len(codeHits') : codeHits'[j] = out[i]
      /\ (pc = "finish" /\ pc' = "done") =>
           \A i \in 1..Len(codeHits) :
             \E j \in 1..Len(ret'.findings.CodeHits) :
               codeKey(ret'.findings.CodeHits[j]) = codeKey(codeHits[i]) ]_vars

\* page 1 answered 422, its strict retry brought a hit
C6_Witness ==
  /\ pc = "throttle"
  /\ thrOn = "resp2"
  /\ resp.status = 422
  /\ resp2.status = 200
  /\ Len(resp2.items) > 0
  /\ page = 2
  /\ Len(codeHits) > 0

\* C7: when the strict retry of a 422 also comes back with a status other than
\* 200, no hit is added, two notes are appended (the retry's, then the first
\* response's), the page loop of the search is left after the pause, and the
\* run goes on to the next search without returning.
C7_RetryAlsoFails ==
  [][ /\ (pc = "retry" /\ resp2'.kind = "http" /\ resp2'.status # 200) =>
           /\ codeHits' = codeHits
           /\ repoHits' = repoHits
           /\ notes' = notes \o <<RetryNote(resp2'.status), StatusNote(422)>>
           /\ pc' = "throttle"
           /\ after' = "break"
           /\ ret' = NoRet
      /\ (pc = "throttle" /\ after = "break" /\ pc' # "throttle") =>
           (pc' = "endsearch" /\ ret' = NoRet /\ codeHits' = codeHits)
      /\ (pc = "endsearch" /\ pc' # "endsearch") =>
           (pc' = "loop" /\ gi' = gi /\ qi' = qi + 1 /\ ret' = NoRet) ]_vars

\* a later search has its request out after an earlier one's retry failed
C7_Witness ==
  /\ pc = "request"
  /\ \E i \in 1..Len(notes) :
       /\ i < Len(notes)
       /\ notes[i].kind = "retry"
       /\ notes[i + 1].kind = "status"
       /\ notes[i + 1].status = 422
       /\ notes[i].g # gi

\* C8: every RepoHit collected, and every RepoHit returned, has PushedAt at
\* or after the window start (so an item pushed earlier, or one whose
\* timestamp does not parse and reads as the zero time, is in neither list).
C8_RepoHitsInWindow ==
  /\ \A i \in 1..Len(repoHits) : repoHits[i].PushedAt >= Since
  /\ pc = "done" =>
       \A i \in 1..Len(ret.findings.RepoHits) : ret.findings.RepoHits[i].PushedAt >= Since

\* a repo page brought an item pushed in the window in a layout that is not
\* RFC3339, and nothing was kept of it
C8_Witness ==
  /\ pc = "throttle"
  /\ Kind = "repo"
  /\ resp.status = 200
  /\ Len(resp.items) > 0
  /\ resp.items[1].PushedAt.fmt # "rfc3339"
  /\ found = 0

\* C9: with the commit check on, every CodeHit that leaves the check, and
\* every CodeHit returned, has a CommitDate that is set and not before the
\* window start; the check keeps exactly the hits of that kind, in order; and
\* from the commit check on runSearches can only return without an error.
C9_CommitChecked ==
  /\ [](/\ (pc = "finish" /\ cfg.UseCommitCheck) =>
             \A i \in 1..Len(codeHits) :
               codeHits[i].CommitDate # 0 /\ codeHits[i].CommitDate >= Since
        /\ (pc = "done" /\ ret.err = "nil" /\ cfg.UseCommitCheck) =>
             \A i \in 1..Len(ret.findings.CodeHits) :
               /\ ret.findings.CodeHits[i].CommitDate # 0
               /\ ret.findings.CodeHits[i].CommitDate >= Since)
  /\ [][ /\ (pc = "enrich" /\ pc' = "finish") =>
              LET dated(h) == h.CommitDate # 0 /\ h.CommitDate >= Since
              IN  codeHits' = SelectSeq(out, dated)
         /\ pc \in {"commitcheck", "enrich", "finish"} =>
              /\ pc' \in {"commitcheck", "enrich", "finish", "done"}
              /\ pc' = "done" => ret'.err = "nil" ]_vars

\* all lookups are in: one failed, one brought a date before the window
C9_Witness ==
  /\ pc = "enrich"
  /\ cfg.UseCommitCheck
  /\ Len(hits) = 2
  /\ next > Len(hits)
  /\ out[1].CommitDate = 0
  /\ out[2].CommitDate = Since - 1

\* the number a Retry-After text stands for, 0 if it is no positive integer
RetryAfterSeconds(t) ==
  CASE t = <<"5">> -> 5
    [] t = <<" ", "5", " ">> -> 5
    [] t = <<"1", "2", "0">> -> 120
    [] OTHER -> 0

\* C10: called on a response whose Retry-After is a positive integer S,
\* throttleFrom sleeps S seconds and 500 ms, under the Retry-After rule and no
\* other, whatever the status, the remaining quota, the reset time and the
\* resource are.
C10_RetryAfter ==
  (slept # NoThr /\ RetryAfterSeconds(thrIn.retryAfter) > 0) =>
    slept = [rule |-> "retry-after", ms |-> RetryAfterSeconds(thrIn.retryAfter) * 1000 + 500]

\* Retry-After: 5 on a 403 with no quota left and a reset time ahead
C10_Witness ==
  /\ slept.rule = "retry-after"
  /\ thrIn.retryAfter = <<"5">>
  /\ thrIn.status = 403
  /\ thrIn.remaining = <<"0">>
  /\ thrIn.reset = <<"1", "2", "0", "0">>
  /\ thrIn.resource = "search"

\* what the header texts in use stand for, read off by hand: the quota left
\* (-1 if the text is no number), the reset time in ms since the epoch (0 if
\* the text is no number), the resource class and its cap in ms
RemainingQuota(t) ==
  CASE t = <<"0">> -> 0
    [] t = <<"2">> -> 2
    [] t = <<"3">> -> 3
    [] t = <<"5", "7">> -> 57
    [] OTHER -> -1

ResetAtMs(t) ==
  CASE t = <<"9", "9", "0">> -> 990000
    [] t = <<"1", "0", "0", "0">> -> 1000000
    [] t = <<"1", "0", "3", "0">> -> 1030000
    [] t = <<"1", "2", "0", "0">> -> 1200000
    [] t = <<"1", "4", "0", "0">> -> 1400000
    [] OTHER -> 0

SearchClass(res) == res \in {"search", "Search"}

CapMs(res) == IF SearchClass(res) THEN 120000 ELSE 300000

MinOf(a, b) == IF a < b THEN a ELSE b

\* throttleFrom has run on a response with no positive Retry-After, a 403 or
\* a numeric remaining quota of at most 2, and a reset time ahead of the clock
ExhaustedWithReset ==
  /\ slept # NoThr
  /\ RetryAfterSeconds(thrIn.retryAfter) = 0
  /\ \/ thrIn.status = 403
     \/ RemainingQuota(thrIn.remaining) \in 0..2
  /\ ResetAtMs(thrIn.reset) > thrIn.now

\* C11 as the specification has it: on such a response, with the reset R
\* ahead, throttleFrom pauses at least min(R, cap) and at most cap (2 minutes
\* for the search class, 5 minutes otherwise).
C11_WithinCap ==
  ExhaustedWithReset =>
    /\ slept.ms >= MinOf(ResetAtMs(thrIn.reset) - thrIn.now, CapMs(thrIn.resource))
    /\ slept.ms <= CapMs(thrIn.resource)

\* C11, amended: on such a response throttleFrom pauses min(R, cap) and
\* 500 ms more, under the reset rule -- so at least min(R, cap) and at most
\* cap + 500 ms.
C11_CapPlusMargin ==
  ExhaustedWithReset =>
    slept = [rule |-> "reset",
             ms |-> MinOf(ResetAtMs(thrIn.reset) - thrIn.now, CapMs(thrIn.resource)) + 500]

\* no quota left, reset 30 s ahead, search class: the pause is 30.5 s
C11_Witness ==
  /\ slept = [rule |-> "reset", ms |-> 30500]
  /\ thrIn.status = 200
  /\ thrIn.remaining = <<"0">>
  /\ thrIn.reset = <<"1", "0", "3", "0">>
  /\ thrIn.now = 1000000
  /\ thrIn.resource = "search"
  /\ thrIn.retryAfter = <<>>

\* the key of a hit of either kind, field by field
KeyOf(kind, h) ==
  IF kind = "code" THEN <<h.Repository, h.FilePath, h.FileURL>> ELSE <<h.FullName>>

\* a is b with some elements left out
IsSubseq(a, b) ==
  \E f \in [1..Len(a) -> 1..Len(b)] :
    /\ \A i, j \in 1..Len(a) : i < j => f[i] < f[j]
    /\ \A i \in 1..Len(a) : a[i] = b[f[i]]

\* C12: dedupeCode and dedupeRepo give back their own output unchanged, and
\* that output is the input with some hits left out, holding every key of
\* the input once.
C12_DedupeIdempotent ==
  pc = "deduped" =>
    /\ ddIn.kind = "code" => dedupeCode(ddOut) = ddOut
    /\ ddIn.kind = "repo" => dedupeRepo(ddOut) = ddOut
    /\ IsSubseq(ddOut, ddIn.list)
    /\ {KeyOf(ddIn.kind, ddOut[i]) : i \in 1..Len(ddOut)}
         = {KeyOf(ddIn.kind, ddIn.list[i]) : i \in 1..Len(ddIn.list)}
    /\ \A i, j \in 1..Len(ddOut) :
         i # j => KeyOf(ddIn.kind, ddOut[i]) # KeyOf(ddIn.kind, ddOut[j])

\* x, y, x: the second x is dropped though it does not follow the first
C12_Witness ==
  /\ pc = "deduped"
  /\ ddIn.kind = "repo"
  /\ Len(ddIn.list) = 3
  /\ ddIn.list[1].FullName = ddIn.list[3].FullName
  /\ ddIn.list[1].FullName # ddIn.list[2].FullName
  /\ ddIn.list[1].PushedAt # ddIn.list[3].PushedAt
  /\ ddOut = SubSeq(ddIn.list, 1, 2)

\* C13: a transport error on a page request of a code or repo search makes
\* runSearches return that error at once with an empty Findings: the loop
\* never goes on holding a failed request, nothing follows the return, and the
\* hits and notes in hand are not in what is returned.
C13_TransportErrAborts ==
  /\ [](resp.kind # "err")
  /\ [](ret.err = "transport" => (pc = "done" /\ ret.findings = EmptyFindings))
  /\ [][ /\ (ret.err # "transport" /\ ret'.err = "transport") => pc = "request"
         /\ pc = "done" => (pc' = "done" /\ ret' = ret) ]_vars

\* the network failed on a later page request, with hits in hand
C13_Witness ==
  /\ pc = "done"
  /\ ret.err = "transport"
  /\ ret.findings = EmptyFindings
  /\ Total > 0
  /\ ~ctxDone

\* C14: a 200 whose body does not parse, on a page request or on the strict
\* retry, makes runSearches return an error with an empty Findings: the run
\* never goes on with such a body in hand, the parse error is returned only
\* from a page request or a strict retry, and nothing follows the return.
C14_BadBodyAborts ==
  /\ [](resp.body # "bad" /\ resp2.body # "bad")
  /\ [](ret.err = "parse" => (pc = "done" /\ ret.findings = EmptyFindings))
  /\ [][ /\ (ret.err # "parse" /\ ret'.err = "parse") =>
              (pc \in {"request", "retry"} /\ pc' = "done")
         /\ (pc = "done" /\ ret.err = "parse") => (pc' = "done" /\ ret' = ret) ]_vars

\* a body that did not parse, with hits of an earlier page or search in hand
C14_Witness ==
  /\ pc = "done"
  /\ ret.err = "parse"
  /\ ret.findings = EmptyFindings
  /\ Total = MaxHits

\* C15: a status other than 200 on a page request (a 422 of a code search
\* goes to the strict retry first, and is meant here when that retry fails
\* too) is absorbed: the note of the response is appended, throttleFrom runs
\* on it, the page loop of the search is left, the hits collected so far stay,
\* runSearches does not return, and every later search that is enabled is
\* started and not skipped. The errors runSearches returns are those of the
\* context, of the transport and of the parsing, never one for a status.
C15_Non200Absorbed ==
  [][ /\ (pc = "request" /\ resp'.kind = "http" /\ resp'.status # 200
             /\ ~(Kind = "code" /\ resp'.status = 422)) =>
           /\ notes' = Append(notes, StatusNote(resp'.status))
           /\ pc' = "throttle"
           /\ thrOn' = "resp"
           /\ after' = "break"
           /\ codeHits' = codeHits
           /\ repoHits' = repoHits
           /\ ret' = NoRet
      /\ (pc = "retry" /\ (resp2'.kind = "err" \/ (resp2'.kind = "http" /\ resp2'.status # 200))) =>
           /\ Len(notes') > Len(notes)
           /\ notes'[Len(notes')] = StatusNote(422)
           /\ pc' = "throttle"
           /\ thrOn' = "resp"
           /\ after' = "break"
           /\ codeHits' = codeHits
           /\ repoHits' = repoHits
           /\ ret' = NoRet
      /\ (pc = "throttle" /\ after = "break" /\ pc' # "throttle") =>
           /\ pc' = "endsearch"
           /\ page' = page
           /\ repoHits' = repoHits
           /\ codeHits' = codeHits
           /\ notes' = notes
      /\ (pc = "endsearch" /\ pc' # "endsearch") =>
           /\ pc' = "loop"
           /\ <<gi', qi'>> = <<gi, qi + 1>>
           /\ IsPrefix(notes, notes')
           /\ codeHits' = codeHits
           /\ repoHits' = repoHits
      /\ (InSearch /\ Runs(gi, qi)) =>
           /\ <<gi', qi'>> = <<gi, qi>>
           /\ pc' # "loop" => (pc' = "check" /\ page' = 1 /\ ret' = NoRet)
      /\ ret'.err \in {"none", "nil", "canceled", "transport", "parse"} ]_vars

\* page 2 of the code search failed; its page 1 hit and the hit of the repo
\* search that came after it are both in the Findings returned
C15_Witness ==
  /\ pc = "done"
  /\ ret.err = "nil"
  /\ ~ctxDone
  /\ \E i \in 1..Len(ret.findings.Notes) :
       /\ ret.findings.Notes[i].kind = "status"
       /\ ret.findings.Notes[i].status = 403
       /\ ret.findings.Notes[i].q = 1
  /\ Len(ret.findings.CodeHits) = 1
  /\ Len(ret.findings.RepoHits) = 1

\* the errors runSearches returns
RunErrors == {"canceled", "transport", "parse"}

\* C16: runSearches returns either a Findings and no error, or an error and
\* the empty Findings; and when it returns an error, handleRunReport answers
\* 500 without a drafting request, leaving s.markdown and s.raw as they were.
C16_AllOrNothing ==
  /\ [](pc = "done" =>
          \/ ret.err = "nil" /\ DOMAIN ret.findings = DOMAIN EmptyFindings
          \/ ret.err \in RunErrors /\ ret.findings = EmptyFindings)
  /\ [](rr.pc = "draft" => (pc = "done" /\ ret.err = "nil"))
  /\ []((rr.pc = "responded" /\ ret.err # "nil") =>
          (rr.code = 500 /\ srv.markdown = "old" /\ srv.raw = OldFindings))
  /\ [][ (pc = "done" /\ ret.err # "nil") =>
           (srv'.markdown = srv.markdown /\ srv'.raw = srv.raw /\ rr'.pc # "draft") ]_vars

\* the search phase failed with hits in hand: 500, and the report of before
\* is still the stored one
C16_Witness ==
  /\ rr = [pc |-> "responded", code |-> 500]
  /\ ret.err = "transport"
  /\ Total > 0
  /\ srv.markdown = "old"
  /\ srv.raw = OldFindings
  /\ ~srv.inProgress

\* a request is out, or about to go out, to the search API, to the commits
\* API or to the drafting API
Upstream ==
  \/ pc \in {"request", "retry", "enrich"}
  \/ rr.pc = "draft"

\* C18: as long as no save-settings request has been served, no upstream
\* request is made and the Server is as main built it; a run-report request
\* that finds the saved flag false is answered 400 and changes nothing else.
C18_NothingBeforeSave ==
  /\ [](~srv.saved => (~Upstream /\ pc = "norun" /\ rr.pc = "idle" /\ srv = NewServer))
  /\ [](Upstream => srv.saved)
  /\ [][ (~srv.saved /\ rr' # rr) =>
           (rr' = [pc |-> "idle", code |-> 400] /\ srv' = srv /\ UNCHANGED runVars) ]_vars

\* a run-report was rejected and the settings are still not saved
C18_Witness ==
  /\ ~srv.saved
  /\ rr = [pc |-> "idle", code |-> 400]
  /\ envTokens

\* the hits search q of group g has put on the raw lists
SearchHits(g, q) ==
  Cardinality({i \in 1..Len(codeHits) :
                 /\ codeHits[i].Group = Groups[g].Name
                 /\ codeHits[i].QueryName = Groups[g].Searches[q].Name})
  + Cardinality({i \in 1..Len(repoHits) :
                   /\ repoHits[i].Group = Groups[g].Name
                   /\ repoHits[i].QueryName = Groups[g].Searches[q].Name})

\* C17: when a search is over, its "no hits" note is appended if and only if
\* none of the hits on the raw lists is its own; the run goes on to the next
\* search either way, and such a note is appended at no other moment.
C17_EmptyNote ==
  [][ /\ (pc = "endsearch" /\ pc' # "endsearch") =>
           /\ pc' = "loop"
           /\ ret' = NoRet
           /\ notes' = IF SearchHits(gi, qi) = 0 THEN Append(notes, EmptyNote) ELSE notes
      /\ (Len(notes') > Len(notes) /\ notes'[Len(notes')].kind \in {"nocode", "norepo"}) =>
           (pc = "endsearch" /\ notes'[Len(notes')] = EmptyNote) ]_vars

\* the code search put a hit on the list and left no note; the repo search
\* after it put none and left its "no hits" note
C17_Witness ==
  /\ pc = "loop"
  /\ cfg.MaxPages = 1
  /\ spec = QS1
  /\ Total = MaxItems
  /\ Len(notes) = 1
  /\ notes[1].kind = "norepo"
  /\ repoHits = <<>>

\* the characters urlQueryEscape is to leave as they are
Restored == {":", "(", ")", ">", "<", "=", ",", "/", "|"}

IsRestored(c) == c \in Restored

IsPercent(c) == c = "%"

\* a character of the query that has to travel as %XX
NeedsPercent(c) == c # " " /\ c \notin Restored /\ shouldEscape(c)

\* the characters with a byte in Code
CodeChars == {" ", "%", "(", ")", "+", ",", "-", ".", "/", ":", "<", "=", ">", "_", "|", "~"}

HexVal(h) == (CHOOSE k \in 1..16 : upperhex[k] = h) - 1

\* what the receiver reads back: '+' is a space, %XX is the byte XX
Unescape(s) ==
  LET start[i \in 1..Len(s)] ==
        /\ s[i] = "%"
        /\ i + 2 <= Len(s)
        /\ \A j \in 1..(i - 1) : j > i - 3 => ~start[j]
      inside(i) == \E j \in 1..(i - 1) : j > i - 3 /\ start[j]
  IN  Flatten([i \in 1..Len(s) |->
                 IF start[i]
                   THEN <<CHOOSE c \in CodeChars :
                            Code(c) = 16 * HexVal(s[i + 1]) + HexVal(s[i + 2])>>
                 ELSE IF inside(i) THEN <<>>
                 ELSE IF s[i] = "+" THEN <<" ">>
                 ELSE <<s[i]>>])

\* C19: what urlQueryEscape returns reads back as the trimmed query; the
\* characters : ( ) > < = , / | of the query are in it as themselves, in their
\* order; and it has one % for each character of the query that has to be
\* escaped and none more, so nothing is escaped twice.
C19_LenientEscape ==
  pc = "escaped" =>
    LET q == TrimSpace(escIn)
    IN  /\ Unescape(escOut) = q
        /\ SelectSeq(escOut, IsRestored) = SelectSeq(q, IsRestored)
        /\ Len(SelectSeq(escOut, IsPercent)) = Len(SelectSeq(q, NeedsPercent))

\* language:python (a,b) stars:>=3 goes out as language:python+(a,b)+stars:>=3
C19_Witness ==
  /\ pc = "escaped"
  /\ escIn = ExampleQuery
  /\ escOut = <<"l", "a", "n", "g", "u", "a", "g", "e", ":", "p", "y", "t", "h", "o", "n", "+", "(", "a", ",", "b", ")", "+", "s", "t", "a", "r", "s", ":", ">", "=", "3">>

\* C20: a request to the search API (a page request or a strict retry) is out
\* only when a throttleFrom pause has been run after every response received
\* before it, and each pause is run on the response received last.
C20_PacedBeforeRequest ==
  /\ pc \in {"request", "retry"} => lastResp = "none"
  /\ pc = "throttle" => thrOn = lastResp

\* C21: when the request of the strict retry fails in transport (err2 != nil),
\* runSearches returns then, with the error and an empty Findings.
C21_RetryTransportErrAborts ==
  [][(pc = "retry" /\ resp2' = TransportErr)
       => (pc' = "done" /\ ret'.findings = EmptyFindings /\ ret'.err \in {"transport", "canceled"})]_vars

\* the response that a step out of a request (or out of the strict retry) has
\* just received
Received == IF pc = "request" THEN resp' ELSE resp2'

\* the step receives a 200 response whose body parses
Got200 ==
  /\ pc \in {"request", "retry"}
  /\ pc' # "done"
  /\ Received.kind = "http"
  /\ Received.status = 200

\* C22: a request is out for a page between 1 and the page cap; a search
\* starts at page 1; the page goes up by one at a time, and only on a 200
\* response with at least one item; a 200 response with no item ends the
\* search; and the step the run takes from the end of a search is to the next
\* search of the group, the searches being gone through forwards only.
C22_PagesInOrder ==
  /\ [](pc \in {"check", "request", "retry"} => (page >= 1 /\ page <= cfg.MaxPages))
  /\ [][(pc = "loop" /\ pc' \in {"check", "endsearch"}) => page' = 1]_vars
  /\ [][(pc \notin {"loop", "endsearch"} /\ pc' # "done" /\ page' # page)
          => (page' = page + 1 /\ Got200 /\ Len(Received.items) >= 1)]_vars
  /\ [][(Got200 /\ Len(Received.items) = 0) => (pc' = "endsearch" /\ page' = page)]_vars
  /\ [][(pc = "endsearch" /\ ctxDone' = ctxDone) => (pc' = "loop" /\ gi' = gi /\ qi' = qi + 1)]_vars
  /\ [][(pc = "loop" /\ pc' # "done") => (gi' > gi \/ (gi' = gi /\ qi' >= qi))]_vars

\* page 2 of a search is being requested, page 1 having brought an item
C22_Witness ==
  /\ pc = "request"
  /\ page = 2
  /\ cfg.MaxPages = 2
  /\ found = 1

\* the notes of the run so far, and those it returned
NotesSoFar == IF pc = "done" THEN (IF ret.err = "nil" THEN ret.findings.Notes ELSE <<>>) ELSE notes

\* the notes left for search q of group g
NotesFor(g, q) == {i \in 1..Len(NotesSoFar) : NotesSoFar[i].g = g /\ NotesSoFar[i].q = q}

KnownKind(g, q) == ToLower(Groups[g].Searches[q].Type) \in {"code", "repo"}

\* the run is past search q of group g
Past(g, q) == pc = "done" \/ g < gi \/ (g = gi /\ q < qi)

\* C23: the run is in the page loop only of a search that is enabled, in an
\* enabled group, and of kind code, or of kind repo with repository search
\* included; a search that is not such has no note, unless it is enabled in an
\* enabled group and of unknown kind: it then has exactly one note, of that
\* kind, once the run is past it. The searches are gone through group by
\* group, search by search, page by page.
C23_OnlyEnabledSearches ==
  /\ [](pc \in {"check", "request", "retry", "throttle", "endsearch"} => Runs(gi, qi))
  /\ [](\A g \in 1..Len(Groups) : \A q \in 1..Len(Groups[g].Searches) :
          ~Runs(g, q) =>
            IF Groups[g].Enabled /\ Groups[g].Searches[q].Enabled /\ ~KnownKind(g, q)
              THEN /\ \A i \in NotesFor(g, q) : NotesSoFar[i].kind = "unknown"
                   /\ Cardinality(NotesFor(g, q)) <= 1
                   /\ (Past(g, q) /\ (pc = "done" => ret.err = "nil")) => Cardinality(NotesFor(g, q)) = 1
              ELSE NotesFor(g, q) = {})
  /\ [][pc' # "done" =>
          \/ gi' > gi
          \/ gi' = gi /\ qi' > qi
          \/ gi' = gi /\ qi' = qi /\ page' >= page]_vars

\* a run over a disabled search, an unknown kind and a disabled group has
\* returned: the one note about them is that of the unknown kind
C23_Witness ==
  /\ pc = "done"
  /\ ret.err = "nil"
  /\ spec = QS2
  /\ NotesFor(1, 1) = {}
  /\ Cardinality(NotesFor(1, 3)) = 1
  /\ NotesFor(2, 1) = {}
  /\ Len(ret.findings.CodeHits) = 2

\* C24: the request with the strict encoding (client.get(ctx, strictURL), pc
\* "retry") is made only as the step that follows a 422 answer to the request
\* with the lenient encoding (client.get(ctx, url), pc "request") of the same
\* search and page, and only for a page that has not had a strict request
\* before; every page is first asked for with the lenient encoding, coming
\* from the select at the top of the page loop.
C24_StrictOnlyAfter422 ==
  /\ [][(pc' = "retry" /\ pc # "retry") =>
          /\ pc = "request"
          /\ resp'.kind = "http"
          /\ resp'.status = 422
          /\ gi' = gi /\ qi' = qi /\ page' = page
          /\ strictPage # page]_vars
  /\ [](pc = "retry" => (resp.status = 422 /\ strictPage = page))
  /\ [][(pc' = "request" /\ pc # "request") => pc = "check"]_vars
  /\ [][(pc' = "check" /\ pc # "check") =>
          \/ pc = "loop" /\ page' = 1 /\ strictPage' = 0
          \/ pc = "throttle" /\ page' > strictPage']_vars

\* page 1 needed the strict retry; page 2 is asked for with the lenient
\* encoding
C24_Witness ==
  /\ pc = "request"
  /\ page = 2
  /\ strictPage = 1
  /\ Len(codeHits) = 1

\* throttleFrom has run on a response with no positive Retry-After, a 403 or
\* a numeric remaining quota of at most 2, and a reset header that is missing,
\* no integer, or an instant not ahead of the clock
ExhaustedNoReset ==
  /\ slept # NoThr
  /\ RetryAfterSeconds(thrIn.retryAfter) = 0
  /\ \/ thrIn.status = 403
     \/ RemainingQuota(thrIn.remaining) \in 0..2
  /\ ResetAtMs(thrIn.reset) <= thrIn.now

\* C25: on such a response throttleFrom makes one pause, under the fallback
\* rule: 90 s for the search class, 30 s otherwise.
C25_FallbackPause ==
  ExhaustedNoReset =>
    /\ slept = [rule |-> "fallback", ms |-> IF SearchClass(thrIn.resource) THEN 90000 ELSE 30000]
    /\ sleeps = <<slept>>

\* a 403 of the search class whose reset time is 10 s in the past: 90 s
C25_Witness ==
  /\ slept = [rule |-> "fallback", ms |-> 90000]
  /\ thrIn.status = 403
  /\ thrIn.reset = <<"9", "9", "0">>
  /\ thrIn.now = 1000000
  /\ thrIn.resource = "search"
  /\ thrIn.retryAfter = <<"0">>
  /\ thrIn.remaining = <<"5", "7">>

BaseMs(res) == IF SearchClass(res) THEN 12000 ELSE 1500

\* C26: every call of throttleFrom makes exactly one time.Sleep, under the
\* first rule that applies: Retry-After when it is a positive integer, else
\* exhaustion (reset or fallback) on a 403 or a remaining quota that reads as
\* at most 2, else pacing; and under pacing, that is with no positive
\* Retry-After, a status other than 403 and a remaining quota above 2, the
\* pause is the base (12 s for the search class, 1.5 s otherwise) plus the
\* jitter, which is at least 0 and below 2 s.
C26_NormalPacing ==
  slept # NoThr =>
    /\ Len(sleeps) = 1
    /\ sleeps[1] = slept
    /\ slept.rule = "retry-after" <=> RetryAfterSeconds(thrIn.retryAfter) > 0
    /\ slept.rule \in {"reset", "fallback"} <=>
         /\ RetryAfterSeconds(thrIn.retryAfter) = 0
         /\ (thrIn.status = 403 \/ RemainingQuota(thrIn.remaining) <= 2)
    /\ slept.rule = "pacing" <=>
         /\ RetryAfterSeconds(thrIn.retryAfter) = 0
         /\ thrIn.status # 403
         /\ RemainingQuota(thrIn.remaining) > 2
    /\ slept.rule = "pacing" =>
         /\ slept.ms = BaseMs(thrIn.resource) + thrIn.jitter
         /\ slept.ms >= BaseMs(thrIn.resource)
         /\ slept.ms < BaseMs(thrIn.resource) + 2000

\* a 200 of the search class with 57 requests left and a reset time ahead: 12.7 s
C26_Witness ==
  /\ sleeps = <<[rule |-> "pacing", ms |-> 12700]>>
  /\ thrIn.status = 200
  /\ thrIn.remaining = <<"5", "7">>
  /\ thrIn.resource = "Search"
  /\ thrIn.jitter = 700
  /\ thrIn.reset = <<"1", "0", "3", "0">>
  /\ thrIn.retryAfter = <<>>

\* the text t holds a fork-filter qualifier: the word fork, a colon with or
\* without white space on either side of it, and the word true, false or
\* only, in whatever case
HasForkQualifier(t) ==
  \E a \in 1..Len(t) :
    /\ FoldMatch(t, a, <<"f", "o", "r", "k">>)
    /\ ~WordAt(t, a - 1)
    /\ \E b \in (a + 4)..Len(t) :
         /\ t[b] = ":"
         /\ \A m \in (a + 4)..(b - 1) : IsSpace(t[m])
         /\ \E c \in (b + 1)..Len(t) :
              /\ \A m \in (b + 1)..(c - 1) : IsSpace(t[m])
              /\ \E w \in ForkValues : FoldMatch(t, c, w) /\ ~WordAt(t, c + Len(w))

\* C27: what sanitizeCodeQuery returns holds no fork-filter qualifier.
C27_NoForkQualifier == pc = "sanitized" => ~HasForkQualifier(sanOut)

\* the requests to the search API that are out, and those to the commits
\* endpoint
SearchesInFlight == IF pc \in {"request", "retry"} THEN 1 ELSE 0

DetailsInFlight == Cardinality({k \in DOMAIN wk : wk[k].pc = "get"})

\* the workers that have been started and have not exited
LiveWorkers == {k \in DOMAIN wk : wk[k].pc \in {"recv", "get", "send"}}

HeldBy(k) == IF wk[k].pc \in {"get", "send"} THEN wk[k].i ELSE 0

\* C29: enrichWithCommitDates returns, whatever the hits and the outcomes of
\* the lookups are. On the way a job is taken by a worker that is waiting for
\* one, the jobs are taken in the order of their indexes, one per take, and no
\* two workers hold the same job; a worker publishes the result of the job it
\* holds, the caller consumes it into out at the job's index, and the worker
\* goes back for the next job; jobs is closed when every job has been taken,
\* results is closed when every worker has exited, and the call returns after
\* that, every job looked up.
C29_PoolTerminates ==
  /\ <>(pc = "returned")
  /\ [][\A k \in DOMAIN wk :
          (wk[k].pc = "recv" /\ wk'[k].pc \in {"get", "send"}) =>
            /\ wk'[k].i = next
            /\ next <= Len(hits)
            /\ next' = next + 1
            /\ ~jobsClosed]_vars
  /\ [][next' = next \/ (next' = next + 1 /\ \E k \in DOMAIN wk : wk[k].pc = "recv" /\ HeldBy(k)' = next)]_vars
  /\ [](\A k1, k2 \in DOMAIN wk : (k1 # k2 /\ HeldBy(k1) # 0) => HeldBy(k1) # HeldBy(k2))
  /\ [](\A k \in DOMAIN wk : HeldBy(k) # 0 => (HeldBy(k) < next /\ HeldBy(k) <= Len(hits)))
  /\ [][\A k \in DOMAIN wk :
          (wk[k].pc = "send" /\ wk'[k] # wk[k]) =>
            /\ wk'[k].pc = "recv"
            /\ ~resultsClosed
            /\ out' = [out EXCEPT ![wk[k].i].CommitDate = wk[k].t]]_vars
  /\ [][out' # out => \E k \in DOMAIN wk : wk[k].pc = "send" /\ wk'[k].pc = "recv"]_vars
  /\ [](jobsClosed => next = Len(hits) + 1)
  /\ [](resultsClosed => (jobsClosed /\ wg = 0 /\ \A k \in DOMAIN wk : wk[k].pc = "exit"))
  /\ [](wg = Cardinality({k \in DOMAIN wk : wk[k].pc # "exit"}))
  /\ [](pc = "returned" =>
          /\ resultsClosed
          /\ Len(enrichRet) = Len(hits)
          /\ \A i \in 1..Len(hits) : looked[i] # -1 /\ enrichRet[i].CommitDate = looked[i])

\* three jobs for two workers have been gone through, one of the lookups
\* having failed and one having found a date, and the call has returned
C29_Witness ==
  /\ pc = "returned"
  /\ Len(hits) = 3
  /\ resultsClosed
  /\ enrichRet[1].CommitDate = 0
  /\ enrichRet[3].CommitDate = MaxDate

\* the emit calls that are between Lock and Unlock
InCritical == {e \in Emitters : em[e].pc \in {"locked", "read", "written", "trimmed"}}

NoRepeat(s) == \A i, j \in 1..Len(s) : i # j => s[i].id # s[j].id

\* C30: one emit call at most is between Lock and Unlock; whenever the lock
\* is free, the event list of every run identifier has at most RingCap events
\* (1000 in the code) and is the last RingCap, or all, of the events whose emit
\* for that identifier has completed, in the order they completed in, each
\* there once and carrying that identifier.
C30_EventRing ==
  /\ Cardinality(InCritical) <= 1
  /\ runsMu = 0 =>
       \A r \in RunIDs :
         /\ Len(runs[r]) <= RingCap
         /\ runs[r] = LastN(emitDone[r], RingCap)
         /\ NoRepeat(emitDone[r])
         /\ \A i \in 1..Len(emitDone[r]) : emitDone[r][i].RunID = r

\* two goroutines have emitted RingCap + 1 events between them for one run
\* identifier: the list holds all but the oldest
C30_Witness ==
  /\ runsMu = 0
  /\ em[1].run = em[2].run
  /\ Len(emitDone[em[1].run]) = RingCap + 1
  /\ runs[em[1].run] = Tail(emitDone[em[1].run])
  /\ \E i, j \in 1..Len(runs[em[1].run]) : runs[em[1].run][i].Phase # runs[em[1].run][j].Phase

\* C31: a request is issued right after an event carrying its URL and its
\* page, and by then the outcome of the request before it has been followed
\* by an event of its own (the event that announces the new request apart).
\* A run that ends is followed by the "error" or "search-summary" event of
\* handleRunReport, so only the requests are looked at.
C31_OutcomesReported ==
  /\ [][(pc = "check" /\ pc' = "request")
          => (~unreported /\ lastEv' = Ev("search", Kind, page, "lenient"))]_vars
  /\ [][(pc = "request" /\ pc' = "retry")
          => (~unreported /\ lastEv' = Ev("retry", "code", page, "strict"))]_vars

\* the first hit of list s that has the key of h
FirstWithKey(kind, s, h) ==
  s[CHOOSE i \in 1..Len(s) :
      /\ KeyOf(kind, s[i]) = KeyOf(kind, h)
      /\ \A j \in 1..(i - 1) : KeyOf(kind, s[j]) # KeyOf(kind, h)]

FoundBySame(a, b) == a.Group = b.Group /\ a.QueryName = b.QueryName

\* C32: every hit of the returned Findings carries the Group and QueryName
\* of the first hit with its key in the order the searches produced them
\* (group, then query, then page), for code hits and for repo hits.
C32_EarliestSearchKept ==
  [][(pc = "finish" /\ pc' = "done")
       => /\ \A i \in 1..Len(ret'.findings.CodeHits) :
               FoundBySame(ret'.findings.CodeHits[i],
                           FirstWithKey("code", codeHits, ret'.findings.CodeHits[i]))
          /\ \A i \in 1..Len(ret'.findings.RepoHits) :
               FoundBySame(ret'.findings.RepoHits[i],
                           FirstWithKey("repo", repoHits, ret'.findings.RepoHits[i]))]_vars

\* the stored settings are inside their ranges
InBounds(c) ==
  /\ 1 <= c.DaysBack /\ c.DaysBack <= 365
  /\ 1 <= c.MaxPages /\ c.MaxPages <= 10
  /\ 10 <= c.PerPage /\ c.PerPage <= 100
  /\ c.OpenAIModel # ""

\* what a body is stored as, field by field
StoredAs(b) ==
  [DaysBack |-> IF 1 <= b.DaysBack /\ b.DaysBack <= 365 THEN b.DaysBack ELSE 7,
   MaxPages |-> IF 1 <= b.MaxPages /\ b.MaxPages <= 10 THEN b.MaxPages ELSE 2,
   PerPage |-> IF 10 <= b.PerPage /\ b.PerPage <= 100 THEN b.PerPage ELSE 50,
   OpenAIModel |-> IF b.OpenAIModel # "" THEN b.OpenAIModel ELSE "gpt-5",
   UseCommitCheck |-> b.UseCommitCheck,
   IncludeRepoSearch |-> b.IncludeRepoSearch]

\* C33: the stored configuration is always inside the ranges 1..365 (DaysBack),
\* 1..10 (MaxPages), 10..100 (PerPage) and names a model; a save stores the
\* body with each field outside its range replaced by its default (7, 2, 50,
\* "gpt-5") and sets the saved flag; a request whose body does not decode
\* leaves the stored configuration and the saved flag as they were.
C33_SettingsSane ==
  /\ [](InBounds(srv.cfg))
  /\ [][sv'.code = 200 => (srv'.cfg = StoredAs(sv'.body) /\ srv'.saved)]_vars
  /\ [][sv'.code = 400 => (srv'.cfg = srv.cfg /\ srv'.saved = srv.saved)]_vars

\* a body with every number outside its range and no model name has been
\* stored as the defaults (no body tried holds 7, 2 or 50), and a body that
\* does not decode has come since
C33_Witness ==
  /\ sv.code = 400
  /\ srv.saved
  /\ srv.cfg.DaysBack = 7 /\ srv.cfg.MaxPages = 2 /\ srv.cfg.PerPage = 50
  /\ srv.cfg.OpenAIModel = "gpt-5"
  /\ ~srv.cfg.UseCommitCheck

\* throttleFrom has run on a response with no positive Retry-After whose
\* X-RateLimit-Remaining is missing or is not a number
RemainingUnreadable ==
  /\ slept # NoThr
  /\ RetryAfterSeconds(thrIn.retryAfter) = 0
  /\ RemainingQuota(thrIn.remaining) = -1

\* C34: on such a response, whatever its status, throttleFrom makes one
\* pause under the exhaustion rule: until the reset and 500 ms more, at most
\* the cap and 500 ms, when the reset is ahead of the clock; 90 s (search
\* class) or 30 s otherwise; never the base wait plus jitter.
C34_UnreadableIsExhausted ==
  RemainingUnreadable =>
    /\ slept = IF ResetAtMs(thrIn.reset) > thrIn.now
                 THEN [rule |-> "reset",
                       ms |-> MinOf(ResetAtMs(thrIn.reset) - thrIn.now, CapMs(thrIn.resource)) + 500]
                 ELSE [rule |-> "fallback",
                       ms |-> IF SearchClass(thrIn.resource) THEN 90000 ELSE 30000]
    /\ sleeps = <<slept>>

\* a 200 of the core class with no X-RateLimit-Remaining and no reset: 30 s
C34_Witness ==
  /\ slept = [rule |-> "fallback", ms |-> 30000]
  /\ thrIn.status = 200
  /\ thrIn.remaining = <<>>
  /\ thrIn.reset = <<>>
  /\ thrIn.retryAfter = <<>>
  /\ thrIn.resource = "core"

\* C35 as the specification has it: a run whose context is cancelled after
\* the last cancellation check it makes has passed returns without an error
\* (a run that is cancelled and returns from anywhere but a cancellation
\* check was cancelled after its last check).
C35_CancelledPastLastCheck ==
  [][(ctxDone /\ pc \notin {"check", "done"} /\ pc' = "done") => ret'.err = "nil"]_vars

\* C35, amended: a run whose context is cancelled when no page request is in
\* flight or still to come returns a Findings and no error; under a cancelled
\* context no lookup of the commit check brings a date; the check keeps only
\* hits whose lookup brought one; and from the commit check on the notes and
\* the repo hits stay as the searches left them and are returned so (the repo
\* hits sorted and without duplicates).
C35_CancelledPastRequests ==
  /\ []((pc = "done" /\ cancelledIn \in {"last", "later"}) => ret.err = "nil")
  /\ [][ctxDone =>
          \A i \in DOMAIN looked :
            (i \in DOMAIN looked' /\ looked'[i] # looked[i]) => looked'[i] = 0]_vars
  /\ [][(pc = "returned" /\ pc' = "finish") =>
          /\ \A j \in 1..Len(codeHits') : codeHits'[j].CommitDate # 0
          /\ Len(codeHits') <= Cardinality({i \in 1..Len(hits) : looked[i] > 0})]_vars
  /\ [][(pc \in {"commitcheck", "pool", "returned", "finish"}) =>
          (IF pc' = "done"
            THEN /\ ret'.findings.Notes = notes
                 /\ \A i \in 1..Len(ret'.findings.RepoHits) :
                      \E j \in 1..Len(repoHits) : ret'.findings.RepoHits[i] = repoHits[j]
                 /\ \A j \in 1..Len(repoHits) :
                      \E i \in 1..Len(ret'.findings.RepoHits) :
                        repoKey(ret'.findings.RepoHits[i]) = repoKey(repoHits[j])
            ELSE (notes' = notes /\ repoHits' = repoHits))]_vars

\* cancelled during enrichment: the first lookup had brought a date, the
\* second had not and has failed
C35_Witness ==
  /\ pc = "returned"
  /\ ctxDone
  /\ cancelledIn = "later"
  /\ Len(hits) = 2
  /\ looked[1] >= Since
  /\ looked[2] = 0
  /\ Len(notes) > 0

\* a run-report request is between the start of its search phase and its return
RunsUnderWay == {h \in Handlers : hr[h] \in {"search", "draft"}}

\* C36: while a run-report request is between the start of its search phase
\* and its return, the status endpoint reports inProgress = true; once every
\* run has returned, it reports inProgress = false and the status "Done.".
C36_StatusTracksRuns ==
  /\ [](RunsUnderWay # {} => handleStatus.inProgress)
  /\ [][(RunsUnderWay # {} /\ RunsUnderWay' = {})
          => handleStatus' = [inProgress |-> FALSE, status |-> "Done."]]_vars

====
